---- MODULE Spec2Model ----
(***************************************************************************)
(* Decision core of the rail collision-avoidance platform:                 *)
(*   - DegradedModeDetector (blocks/1_calibration/src/degraded_mode.py)    *)
(*   - SafetyVeto and its helpers (blocks/5_safety_envelope/src)           *)
(*   - BotSORT, Engine2Persistence and TrackMemory                         *)
(*     (blocks/2_cognitive_trinity/engines/engine_2_persistence/src)       *)
(*   - compute_ttc_v2 (.../engine_3_behavior/src/ttc/calculator.py)        *)
(*                                                                         *)
(* Units.  The four confidence inputs are integers in hundredths (95 is    *)
(* 0.95).  One weighted blend is an integer in 1/10000 (the weights are    *)
(* hundredths too).  Means and probabilities are exact rationals           *)
(* [num, den]; the rounding of the IEEE division is kept as a sign that    *)
(* only matters when the exact mean sits on a threshold.  TTC values are   *)
(* tenths of a second, INF is float('inf').  Risks and TTC confidences are *)
(* hundredths.                                                             *)
(***************************************************************************)
EXTENDS Integers, Sequences, FiniteSets, TLC

VARIABLES
    det,          \* DegradedModeDetector: its four instance fields
    status,       \* the ModeStatus returned by the last update
    log,          \* every input fed since construction or the last reset
    current_mode, \* SafetyVeto.current_mode
    frame,        \* the ttc_result, risk_scores and validation_status at hand
    locals,       \* effective_ttc, conf, max_risk, critical of the last evaluate
    result,       \* the dict returned by the last evaluate
    brake_fired,  \* execute_hardwire_brake ran during the last evaluate
    arg,          \* the mode or mode_status the last SafetyVeto call was given
    tracker,      \* the tracker class the frames are fed to
    botsort,      \* BotSORT: tracks and next_id
    engine2,      \* Engine2Persistence: tracks and next_track_id
    assignments,  \* detection index -> track id, as matched in the last frame
    issued,       \* every track id handed out since construction, in order
    streak,       \* per held track: its matched and unmatched frames so far
    memory,       \* TrackMemory.tracks, oldest entry first
    mem_arg,      \* the track or track id the last TrackMemory call was given
    mem_fed,      \* what TrackMemory was fed so far: ids, qualities, calls
    ttc_in,       \* the train_state and predictions compute_ttc_v2 is given
    ttc_result,   \* the TTCResult compute_ttc_v2 returned
    tom,          \* infer_intent_v2 for one track: the intents returned, the last one
    scored,       \* the Track compute_quality_score is called on
    assoc,        \* associate_detections: its arguments and what each call drew and returned
    engine3,      \* Engine3Behavior: prev_intents and prev_risks
    e3_call,      \* the tracks and optical flow of the last process call, the calls so far
    e3_out,       \* the dict returned by the last process call
    last_op       \* the operation that produced this state

vars == <<det, status, log, current_mode, frame, locals, result, brake_fired,
          arg, tracker, botsort, engine2, assignments, issued, streak,
          memory, mem_arg, mem_fed, ttc_in, ttc_result, assoc, tom, scored,
          engine3, e3_call, e3_out, last_op>>

detVars  == <<det, status, log>>
vetoVars == <<current_mode, frame, locals, result, brake_fired, arg>>
trackVars == <<tracker, botsort, engine2, assignments, issued, streak>>
\* the state of the engines of the cognitive trinity
memVars == <<memory, mem_arg, mem_fed>>
ttcVars == <<ttc_in, ttc_result>>
\* the pure functions under study: arguments and results
behaviorVars == <<engine3, e3_call, e3_out>>
calcVars == <<ttcVars, assoc, tom, scored, behaviorVars>>
engineVars == <<trackVars, memVars, calcVars>>

-----------------------------------------------------------------------------
(* Bounds of the model *)

\* updates fed to the detector between two resets
MaxUpdates == 32
\* changes of input between consecutive updates, between two resets
MaxSwitches == 1
\* tracks in a risk_scores map
MaxRiskTracks == 3

-----------------------------------------------------------------------------
(* Exact rationals *)

RECURSIVE Gcd(_, _)
Gcd(a, b) == IF b = 0 THEN a ELSE Gcd(b, a % b)

Abs(n) == IF n < 0 THEN -n ELSE n

Rat(n, d) ==
    LET g == Gcd(Abs(n), Abs(d))
    IN  [num |-> n \div g, den |-> d \div g]

RatAdd(a, b) == Rat(a.num * b.den + b.num * a.den, a.den * b.den)
RatSub(a, b) == Rat(a.num * b.den - b.num * a.den, a.den * b.den)
RatMul(a, b) == Rat(a.num * b.num, a.den * b.den)
RatLT(a, b)  == a.num * b.den < b.num * a.den
RatEq(a, b)  == a.num * b.den = b.num * a.den

Min2(a, b) == IF a <= b THEN a ELSE b

RECURSIVE SumSeq(_)
SumSeq(s) == IF s = <<>> THEN 0 ELSE s[1] + SumSeq(Tail(s))

\* one blend unit is 1/BlendScale
BlendScale == 100 * 100

-----------------------------------------------------------------------------
(* DegradedModeDetector *)

max_history == 30
nominal_threshold == Rat(80, 100)
degraded_threshold == Rat(40, 100)

\* the weighted confidence score of one update, in 1/BlendScale
overall_confidence(x) == x[1] * 30 + x[2] * 30 + x[3] * 20 + x[4] * 20

\* self.confidence_history.append(..); pop(0) when longer than max_history
AppendHistoryDropNewest(history, c, maxh) ==
    IF Len(history) + 1 > maxh THEN history ELSE Append(history, c)
AppendHistoryOffByOne(history, c, maxh) ==
    LET h == Append(history, c)
    IN  IF Len(h) > maxh + 1 THEN Tail(h) ELSE h
AppendHistory(history, c, maxh) ==
    LET h == Append(history, c)
    IN  IF Len(h) > maxh THEN Tail(h) ELSE h

\* sum(self.confidence_history) / len(self.confidence_history)
AvgConfidence(history) == Rat(SumSeq(history), Len(history) * BlendScale)

\* The float quotient differs from the exact mean by rounding only; which
\* side of a threshold it lands on is open exactly when the exact mean is
\* that threshold.
Roundings(avg, d) ==
    IF RatEq(avg, d.nominal_threshold) \/ RatEq(avg, d.degraded_threshold)
    THEN {-1, 0, 1}
    ELSE {0}

\* avg_confidence >= threshold, on the rounded quotient
ScoreGE(avg, rnd, thr) == RatLT(thr, avg) \/ (RatEq(avg, thr) /\ rnd >= 0)

\* min(factors, key=factors.get): the first key of the dict with the
\* lowest value
_infer_reason_tunnel_first(x) ==
    LET factors == << <<"TUNNEL_DARK", Min2(x[1], x[3])>>,
                      <<"RAIL_OCCLUSION", x[1]>>,
                      <<"CALIBRATION_DRIFT", x[2]>>,
                      <<"LOW_CONTRAST", x[3]>> >>
        lowest == CHOOSE i \in 1..4 :
                    /\ \A j \in 1..4 : factors[i][2] <= factors[j][2]
                    /\ \A j \in 1..(i - 1) : factors[j][2] > factors[i][2]
    IN  factors[lowest][1]
_infer_reason(x) ==
    LET factors == << <<"RAIL_OCCLUSION", x[1]>>,
                      <<"CALIBRATION_DRIFT", x[2]>>,
                      <<"LOW_CONTRAST", x[3]>>,
                      <<"TUNNEL_DARK", Min2(x[1], x[3])>> >>
        lowest == CHOOSE i \in 1..4 :
                    /\ \A j \in 1..4 : factors[i][2] <= factors[j][2]
                    /\ \A j \in 1..(i - 1) : factors[j][2] > factors[i][2]
    IN  factors[lowest][1]

NominalStatus(avg, rnd) ==
    [mode |-> "NOMINAL", confidence_score |-> avg, rounding |-> rnd,
     degraded_reason |-> "NONE",
     p_alert_correct |-> Rat(95, 100), p_miss |-> Rat(1, 1000),
     recommendation |-> "NORMAL_OPERATION"]

DegradedStatusMissOffset(avg, rnd, x) ==
    [mode |-> "DEGRADED", confidence_score |-> avg, rounding |-> rnd,
     degraded_reason |-> _infer_reason(x),
     p_alert_correct |-> RatAdd(Rat(50, 100), RatMul(avg, Rat(40, 100))),
     p_miss |-> RatAdd(Rat(5, 10),
                       RatMul(RatSub(Rat(1, 1), avg), Rat(20, 100))),
     recommendation |-> "OPERATOR_VIGILANCE_REQUIRED"]
DegradedStatus(avg, rnd, x) ==
    [mode |-> "DEGRADED", confidence_score |-> avg, rounding |-> rnd,
     degraded_reason |-> _infer_reason(x),
     p_alert_correct |-> RatAdd(Rat(50, 100), RatMul(avg, Rat(40, 100))),
     p_miss |-> RatAdd(Rat(5, 100),
                       RatMul(RatSub(Rat(1, 1), avg), Rat(20, 100))),
     recommendation |-> "OPERATOR_VIGILANCE_REQUIRED"]

FaultStatus(avg, rnd) ==
    [mode |-> "FAULT", confidence_score |-> avg, rounding |-> rnd,
     degraded_reason |-> "CALIBRATION_DRIFT",
     p_alert_correct |-> Rat(30, 100), p_miss |-> Rat(40, 100),
     recommendation |-> "MANUAL_CONTROL_REQUIRED"]

\* the mode cascade of update and the ModeStatus it returns
ModeStatusNominalFromDegraded(d, avg, rnd, x) ==
    IF ScoreGE(avg, rnd, d.degraded_threshold) THEN NominalStatus(avg, rnd)
    ELSE FaultStatus(avg, rnd)
ModeStatus(d, avg, rnd, x) ==
    IF ScoreGE(avg, rnd, d.nominal_threshold) THEN NominalStatus(avg, rnd)
    ELSE IF ScoreGE(avg, rnd, d.degraded_threshold)
         THEN DegradedStatus(avg, rnd, x)
         ELSE FaultStatus(avg, rnd)

\* DegradedModeDetector.__init__
NewDetector ==
    [confidence_history |-> <<>>,
     max_history |-> max_history,
     nominal_threshold |-> nominal_threshold,
     degraded_threshold |-> degraded_threshold]

\* no update has returned yet
NoStatus ==
    [mode |-> "NO_STATUS", confidence_score |-> Rat(0, 1), rounding |-> 0,
     degraded_reason |-> "NONE",
     p_alert_correct |-> Rat(1, 1), p_miss |-> Rat(0, 1),
     recommendation |-> "NORMAL_OPERATION"]

\* the inputs the environment feeds: the two of the spec's scenarios, the
\* two of test_recovery_to_nominal
HighSample     == <<95, 90, 88, 92>>
FailureSample  == <<10, 15, 20, 25>>
HalfSample     == <<50, 50, 50, 50>>
RecoverySample == <<90, 90, 90, 90>>
Samples == {HighSample, FailureSample, HalfSample, RecoverySample}

\* an input whose lowest factor is the detection confidence
WeakDetectionSample == <<80, 80, 80, 20>>
UpdateSamples == Samples \cup {WeakDetectionSample}

RECURSIVE Switches(_)
Switches(s) ==
    IF Len(s) < 2 THEN 0
    ELSE (IF s[1] # s[2] THEN 1 ELSE 0) + Switches(Tail(s))

\* the environment feeds at most MaxUpdates inputs between two resets and
\* changes the input at most MaxSwitches times
MayFeed(x) ==
    /\ Len(log) < MaxUpdates
    /\ IF log = <<>> THEN TRUE
       ELSE IF x = log[Len(log)] THEN TRUE
       ELSE Switches(log) < MaxSwitches

\* DegradedModeDetector.update(rail_visibility, calibration_confidence,
\*                             depth_confidence, detection_confidence)
update(x) ==
    /\ MayFeed(x)
    /\ LET h   == AppendHistory(det.confidence_history,
                                overall_confidence(x), det.max_history)
           avg == AvgConfidence(h)
       IN  /\ det' = [det EXCEPT !.confidence_history = h]
           /\ \E rnd \in Roundings(avg, det) :
                 status' = ModeStatus(det, avg, rnd, x)
    /\ log' = Append(log, x)
    /\ last_op' = "update"
    /\ UNCHANGED <<vetoVars, engineVars>>

\* DegradedModeDetector.reset
resetKeepLast ==
    /\ det' = [det EXCEPT !.confidence_history =
                   IF @ = <<>> THEN @ ELSE <<@[Len(@)]>>]
    /\ log' = <<>>
    /\ last_op' = "reset"
    /\ UNCHANGED <<status, vetoVars, engineVars>>
reset ==
    /\ det' = [det EXCEPT !.confidence_history = <<>>]
    /\ log' = <<>>
    /\ last_op' = "reset"
    /\ UNCHANGED <<status, vetoVars, engineVars>>

-----------------------------------------------------------------------------
(* SafetyVeto *)

\* float('inf'), in tenths of a second
INF == 1000000

\* evaluate_ttc(ttc_result, validation_status): <<effective_ttc, conf>>
evaluate_ttc_mean_only(ttc, validation_status) ==
    IF validation_status = "UNCERTAIN" \/ ttc.confidence < 70
    THEN <<ttc.mean, 50>>
    ELSE <<ttc.mean, ttc.confidence>>
evaluate_ttc_max_when_uncertain(ttc, validation_status) ==
    IF validation_status = "UNCERTAIN" \/ ttc.confidence < 70
    THEN <<ttc.max, 50>>
    ELSE <<ttc.mean, ttc.confidence>>
evaluate_ttc(ttc, validation_status) ==
    IF validation_status = "UNCERTAIN" \/ ttc.confidence < 70
    THEN <<ttc.min, 50>>
    ELSE <<ttc.mean, ttc.confidence>>

RECURSIVE MaxOf(_)
MaxOf(S) ==
    LET v == CHOOSE e \in S : TRUE
    IN  IF S = {v} THEN v
        ELSE LET m == MaxOf(S \ {v}) IN IF v > m THEN v ELSE m

\* aggregate_risk(risk_scores): <<max_risk, critical>>
aggregate_risk(risk_scores) ==
    IF DOMAIN risk_scores = {} THEN <<0, 0>>
    ELSE <<MaxOf({risk_scores[t] : t \in DOMAIN risk_scores}),
           Cardinality({t \in DOMAIN risk_scores : risk_scores[t] > 80})>>

\* decide_action(effective_ttc, max_risk, critical_count, validation_status)
decide_action_service_first(effective_ttc, max_risk, critical_count, validation_status) ==
    IF effective_ttc < 20 /\ max_risk > 80 THEN "SERVICE_BRAKE"
    ELSE IF effective_ttc < 10 \/ critical_count >= 3 THEN "EMERGENCY_BRAKE"
    ELSE IF effective_ttc < 30 THEN "WARNING"
    ELSE IF effective_ttc < 50 \/ validation_status = "UNCERTAIN"
         THEN "CAUTION"
    ELSE "CLEAR"
decide_action(effective_ttc, max_risk, critical_count, validation_status) ==
    IF effective_ttc < 10 \/ critical_count >= 3 THEN "EMERGENCY_BRAKE"
    ELSE IF effective_ttc < 20 /\ max_risk > 80 THEN "SERVICE_BRAKE"
    ELSE IF effective_ttc < 30 THEN "WARNING"
    ELSE IF effective_ttc < 50 \/ validation_status = "UNCERTAIN"
         THEN "CAUTION"
    ELSE "CLEAR"

\* SafetyVeto._degraded_action(ttc, risk)
_degraded_action_service(ttc, risk) ==
    IF ttc < 10 THEN "WARNING"
    ELSE IF ttc < 20 THEN (IF risk > 80 THEN "SERVICE_BRAKE" ELSE "WARNING")
    ELSE IF ttc < 30 THEN "CAUTION"
    ELSE "CLEAR"
_degraded_action_inclusive(ttc, risk) ==
    IF ttc < 10 THEN "WARNING"
    ELSE IF ttc <= 20 THEN "WARNING"
    ELSE IF ttc <= 30 THEN "CAUTION"
    ELSE "CLEAR"
_degraded_action(ttc, risk) ==
    IF ttc < 10 THEN "WARNING"
    ELSE IF ttc < 20 THEN "WARNING"
    ELSE IF ttc < 30 THEN "CAUTION"
    ELSE "CLEAR"

\* the branch of evaluate on self.current_mode that picks the action
ActionForModeFaultDecides(mode, effective_ttc, max_risk, critical, validation_status) ==
    IF mode = "DEGRADED" THEN _degraded_action(effective_ttc, max_risk)
    ELSE decide_action(effective_ttc, max_risk, critical, validation_status)
ActionForMode(mode, effective_ttc, max_risk, critical, validation_status) ==
    IF mode = "NOMINAL"
    THEN decide_action(effective_ttc, max_risk, critical, validation_status)
    ELSE IF mode = "DEGRADED"
         THEN _degraded_action(effective_ttc, max_risk)
         ELSE "CLEAR"

\* whether evaluate reaches execute_hardwire_brake()
HardwireBrakeOnAnyBrake(mode, action) ==
    mode = "NOMINAL" /\ action \in {"EMERGENCY_BRAKE", "SERVICE_BRAKE"}
HardwireBrake(mode, action) ==
    mode = "NOMINAL" /\ action = "EMERGENCY_BRAKE"

\* 'braking_enabled': self.current_mode == SystemMode.NOMINAL
BrakingEnabled(mode) == mode = "NOMINAL"

\* the keys evaluate adds when a mode_status is given and the mode is
\* DEGRADED; <<>> when it adds none
ModeInfo(mode_status, mode) ==
    IF mode_status # <<>> /\ mode = "DEGRADED"
    THEN << [P_alert_correct |-> mode_status[1].p_alert_correct,
             P_miss |-> mode_status[1].p_miss,
             degraded_reason |-> mode_status[1].degraded_reason,
             recommendation |-> mode_status[1].recommendation] >>
    ELSE <<>>

SystemModes == {"NOMINAL", "DEGRADED", "FAULT"}

\* the frames evaluate is called on
TTCValues == {1, 10, 20, 25, 30, 50, INF}
TTCConfidences == {69, 70, 100}
RiskValues == {80, 99}
ValidationStatuses == {"VALIDATED", "UNCERTAIN"}

TTCResults ==
    {t \in [min : TTCValues, mean : TTCValues, max : TTCValues,
            confidence : TTCConfidences] : t.min <= t.mean /\ t.mean <= t.max}

RiskMaps == UNION {[1..k -> RiskValues] : k \in 0..MaxRiskTracks}

Frames == [ttc : TTCResults, risk_scores : RiskMaps,
           validation_status : ValidationStatuses]

\* the statuses a detector returns on its first update
FirstStatus(x) ==
    ModeStatus(NewDetector, AvgConfidence(<<overall_confidence(x)>>), 0, x)

\* mode_status: Optional[ModeStatus]; <<>> is None
ModeStatusArgs == {<<>>} \cup {<<FirstStatus(x)>> : x \in Samples}

NoLocals == [effective_ttc |-> INF, conf |-> 0, max_risk |-> 0, critical |-> 0]

NoResult ==
    [action |-> "NO_RESULT", ttc_used |-> INF, max_risk |-> 0,
     system_mode |-> "NOMINAL", braking_enabled |-> FALSE, mode_info |-> <<>>]

\* SafetyVeto.set_system_mode(mode)
set_system_mode(mode) ==
    /\ current_mode' = mode
    /\ arg' = mode
    /\ last_op' = "set_system_mode"
    /\ UNCHANGED <<detVars, frame, locals, result, brake_fired, engineVars>>

\* SafetyVeto.evaluate(ttc_result, risk_scores, validation_status,
\*                     train_state, mode_status); train_state is not read
evaluateStaleMode(mode_status) ==
    LET mode == IF mode_status # <<>> THEN mode_status[1].mode
                ELSE current_mode
        et   == evaluate_ttc(frame.ttc, frame.validation_status)
        ar   == aggregate_risk(frame.risk_scores)
        action == ActionForMode(current_mode, et[1], ar[1], ar[2],
                                frame.validation_status)
    IN  /\ current_mode' = mode
        /\ arg' = mode_status
        /\ locals' = [effective_ttc |-> et[1], conf |-> et[2],
                      max_risk |-> ar[1], critical |-> ar[2]]
        /\ brake_fired' = HardwireBrake(current_mode, action)
        /\ result' = [action |-> action,
                      ttc_used |-> et[1],
                      max_risk |-> ar[1],
                      system_mode |-> current_mode,
                      braking_enabled |-> BrakingEnabled(current_mode),
                      mode_info |-> ModeInfo(mode_status, current_mode)]
        /\ last_op' = "evaluate"
        /\ UNCHANGED <<detVars, frame, engineVars>>
evaluate(mode_status) ==
    LET mode == IF mode_status # <<>> THEN mode_status[1].mode
                ELSE current_mode
        et   == evaluate_ttc(frame.ttc, frame.validation_status)
        ar   == aggregate_risk(frame.risk_scores)
        action == ActionForMode(mode, et[1], ar[1], ar[2],
                                frame.validation_status)
    IN  /\ current_mode' = mode
        /\ arg' = mode_status
        /\ locals' = [effective_ttc |-> et[1], conf |-> et[2],
                      max_risk |-> ar[1], critical |-> ar[2]]
        /\ brake_fired' = HardwireBrake(mode, action)
        /\ result' = [action |-> action,
                      ttc_used |-> et[1],
                      max_risk |-> ar[1],
                      system_mode |-> mode,
                      braking_enabled |-> BrakingEnabled(mode),
                      mode_info |-> ModeInfo(mode_status, mode)]
        /\ last_op' = "evaluate"
        /\ UNCHANGED <<detVars, frame, engineVars>>

-----------------------------------------------------------------------------
(* Engine 2: BotSORT and Engine2Persistence *)

\* frames fed to a tracker never issue more than this many track ids
MaxIds == 2
\* detections in one frame
MaxDetections == 1
\* frames in which one track is matched
MaxMatches == 1
\* detections in one frame, and track ids issued, when the frames come as
\* batches of detections
MaxBatch == 13
MaxBatchIds == 52
\* detections arrive only while no held track has gone longer than this
\* without an update
MaxGap == 2

\* PERSISTENCE_PARAMS
max_tracks == 50
ghost_max_age == 30
tentative_threshold == 3
\* BotSORT.__init__(iou_threshold=0.3, max_age=30)
max_age == 30

TrackStates == {"TENTATIVE", "ACTIVE", "GHOST", "DELETED"}

\* Track(track_id=..., state=TrackState.TENTATIVE): age and
\* time_since_update default to 0
NewTrack(track_id) ==
    [track_id |-> track_id, state |-> "TENTATIVE", age |-> 0,
     time_since_update |-> 0]

\* a registry is a function from the ids it holds to their Track
NoTracks == [id \in {} |-> NewTrack(id)]
NewBotSORT == [tracks |-> NoTracks, next_id |-> 0]
NewEngine2Persistence == [tracks |-> NoTracks, next_track_id |-> 0]

Range(f) == {f[x] : x \in DOMAIN f}
SetMin(S) == CHOOSE x \in S : \A y \in S : x <= y
Without(tracks, track_id) ==
    [id \in DOMAIN tracks \ {track_id} |-> tracks[id]]

\* what an association stage may return for these detections and tracks:
\* each detection goes to at most one track and each track to at most one
\* detection
Matchings(dets, ids) ==
    {m \in UNION {[D -> ids] : D \in SUBSET dets} :
        \A a, b \in DOMAIN m : a # b => m[a] # m[b]}

\* BotSORT._iou_matching: matched, unmatched detections, unmatched tracks
_iou_matching(dets, tracks, matched) ==
    <<matched, dets \ DOMAIN matched, DOMAIN tracks \ Range(matched)>>

\* BotSORT._reid_matching, on what stage 1 left unmatched
_reid_matching(unmatched_dets, unmatched_tracks, matched) ==
    <<matched, unmatched_dets \ DOMAIN matched,
      unmatched_tracks \ Range(matched)>>

\* BotSORT._update_track(track_id, detection, embedding)
_update_track(tracks, track_id) ==
    IF track_id \in DOMAIN tracks
    THEN [tracks EXCEPT ![track_id] =
             [@ EXCEPT !.time_since_update = 0, !.age = @ + 1,
                       !.state = "ACTIVE"]]
    ELSE tracks

\* BotSORT._create_track(detection, embedding): the tracker after it and
\* the Track it returns
_create_track_reuse(bs) ==
    LET track == NewTrack(Cardinality(DOMAIN bs.tracks))
    IN  [bs |-> [tracks |-> (track.track_id :> track) @@ bs.tracks,
                 next_id |-> bs.next_id + 1],
         track |-> track]
_create_track(bs) ==
    LET track == NewTrack(bs.next_id)
    IN  [bs |-> [tracks |-> (bs.next_id :> track) @@ bs.tracks,
                 next_id |-> bs.next_id + 1],
         track |-> track]

\* BotSORT._age_track(track_id)
_age_track_keep_deleted(tracks, track_id) ==
    IF track_id \in DOMAIN tracks
    THEN LET tsu == tracks[track_id].time_since_update + 1
             aged == [tracks[track_id] EXCEPT
                         !.time_since_update = tsu,
                         !.state = IF tsu > 0 THEN "GHOST" ELSE @]
         IN  IF tsu > max_age
             THEN [tracks EXCEPT ![track_id] =
                      [aged EXCEPT !.state = "DELETED"]]
             ELSE [tracks EXCEPT ![track_id] = aged]
    ELSE tracks
_age_track(tracks, track_id) ==
    IF track_id \in DOMAIN tracks
    THEN LET tsu == tracks[track_id].time_since_update + 1
             aged == [tracks[track_id] EXCEPT
                         !.time_since_update = tsu,
                         !.state = IF tsu > 0 THEN "GHOST" ELSE @]
         IN  IF tsu > max_age
             THEN Without(tracks, track_id)
             ELSE [tracks EXCEPT ![track_id] = aged]
    ELSE tracks

\* for det_idx, track_id in {**matched_1, **matched_2}.items(): no two
\* detections share a track, and _update_track touches its track only
UpdateMatched(tracks, matched) ==
    [id \in DOMAIN tracks |->
        IF id \in Range(matched) THEN _update_track(tracks, id)[id]
        ELSE tracks[id]]

\* for det_idx in unmatched_dets_2, run for n detections: the tracker and
\* the ids handed out (the loop is run as two half loops, one after the
\* other, to keep the evaluation shallow)
RECURSIVE CreateTracks(_, _, _)
CreateTracks(bs, ids, n) ==
    IF n = 0 THEN [bs |-> bs, ids |-> ids]
    ELSE IF n = 1
    THEN LET c == _create_track(bs)
         IN  [bs |-> c.bs, ids |-> Append(ids, c.track.track_id)]
    ELSE LET first == CreateTracks(bs, ids, n \div 2)
         IN  CreateTracks(first.bs, first.ids, n - (n \div 2))

\* for track_id in unmatched_tracks_2: _age_track touches its track only
AgeTracks(tracks, ids) ==
    [id \in {i \in DOMAIN tracks :
                i \in ids => i \in DOMAIN _age_track(tracks, i)} |->
        IF id \in ids THEN _age_track(tracks, id)[id] ELSE tracks[id]]

\* consecutive matched frames, consecutive unmatched frames and matched
\* frames in all of the tracks held after a frame that matched the tracks
\* of `matched`
Streaks(held, matched) ==
    [id \in held |->
        IF id \notin DOMAIN streak
        THEN [hits |-> 0, misses |-> 0, matches |-> 0]
        ELSE IF id \in Range(matched)
             THEN [hits |-> streak[id].hits + 1, misses |-> 0,
                   matches |-> streak[id].matches + 1]
             ELSE [hits |-> 0, misses |-> streak[id].misses + 1,
                   matches |-> streak[id].matches]]

\* BotSORT.update(detections, features), given what the two association
\* stages return
BotSORT_update(detections, stage_1, stage_2) ==
    LET dets == 0..(detections - 1)
        m1 == _iou_matching(dets, botsort.tracks, stage_1)
        m2 == _reid_matching(m1[2], m1[3], stage_2)
        matched == m2[1] @@ m1[1]
        updated == UpdateMatched(botsort.tracks, matched)
        created == CreateTracks([tracks |-> updated,
                                 next_id |-> botsort.next_id], <<>>,
                                Cardinality(m2[2]))
        aged == AgeTracks(created.bs.tracks, m2[3])
    IN  /\ tracker = "BotSORT"
        /\ botsort' = [tracks |-> aged, next_id |-> created.bs.next_id]
        /\ assignments' = matched
        /\ issued' = issued \o created.ids
        /\ streak' = Streaks(DOMAIN aged, matched)
        /\ last_op' = "BotSORT_update"
        /\ UNCHANGED <<detVars, vetoVars, tracker, engine2, memVars, calcVars>>

\* Engine2Persistence._associate(detections, features): det_idx -> track_id
_associate(dets, tracks, matched) == matched

\* Engine2Persistence._update_matched(detections, features, assignments)
_update_matched(tracks, assigned) ==
    [id \in DOMAIN tracks |->
        IF id \in Range(assigned)
        THEN [tracks[id] EXCEPT !.time_since_update = 0, !.state = "ACTIVE"]
        ELSE tracks[id]]

\* Engine2Persistence._create_new_tracks(detections, features, assignments):
\* one TENTATIVE track per unmatched detection under the next id, after an
\* eviction when max_tracks are held; no quality_score is ever computed, so
\* the oldest track is the one with the lowest score
RECURSIVE _create_new_tracks(_, _, _)
_create_new_tracks(e, ids, n) ==
    IF n = 0 THEN [e |-> e, ids |-> ids]
    ELSE IF n = 1
    THEN LET room == IF Cardinality(DOMAIN e.tracks) >= max_tracks
                     THEN Without(e.tracks, SetMin(DOMAIN e.tracks))
                     ELSE e.tracks
             track == NewTrack(e.next_track_id)
         IN  [e |-> [tracks |-> (track.track_id :> track) @@ room,
                     next_track_id |-> e.next_track_id + 1],
              ids |-> Append(ids, track.track_id)]
    ELSE LET first == _create_new_tracks(e, ids, n \div 2)
         IN  _create_new_tracks(first.e, first.ids, n - (n \div 2))

\* Engine2Persistence._manage_tracks()
_manage_tracks(tracks) ==
    LET managed ==
            [id \in DOMAIN tracks |->
                LET tsu == tracks[id].time_since_update + 1
                IN  [tracks[id] EXCEPT
                        !.time_since_update = tsu,
                        !.state = IF @ = "ACTIVE" /\ tsu > 0
                                  THEN "GHOST" ELSE @]]
    IN  [id \in {i \in DOMAIN tracks :
                    managed[i].time_since_update <= ghost_max_age} |->
            managed[id]]

\* Engine2Persistence.process(detections, frame), given what _associate
\* returns
process(detections, associated) ==
    LET dets == 0..(detections - 1)
        assigned == _associate(dets, engine2.tracks, associated)
        updated == _update_matched(engine2.tracks, assigned)
        created == _create_new_tracks(
                       [tracks |-> updated,
                        next_track_id |-> engine2.next_track_id],
                       <<>>, Cardinality(dets \ DOMAIN assigned))
        managed == _manage_tracks(created.e.tracks)
    IN  /\ tracker = "Engine2Persistence"
        /\ engine2' = [tracks |-> managed,
                       next_track_id |-> created.e.next_track_id]
        /\ assignments' = assigned
        /\ issued' = issued \o created.ids
        /\ streak' = Streaks(DOMAIN managed, assigned)
        /\ last_op' = "process"
        /\ UNCHANGED <<detVars, vetoVars, tracker, botsort, memVars, calcVars>>

Trackers == {"BotSORT", "Engine2Persistence"}

\* the registry of the tracker in use
Held == IF tracker = "BotSORT" THEN botsort.tracks ELSE engine2.tracks

\* the sizes of the detection batches: none, or a batch
BatchSizes == {0, MaxBatch}

\* the frames the model feeds: within the bounds on ids and matches
MayTrack(tracks, next, detections, matched, ids) ==
    /\ detections > 0 =>
          \A id \in DOMAIN tracks : tracks[id].time_since_update <= MaxGap
    /\ next + detections - Cardinality(DOMAIN matched) <= ids
    /\ \A d \in DOMAIN matched : streak[matched[d]].matches < MaxMatches

-----------------------------------------------------------------------------
(* Engine 2: TrackMemory *)

\* tracks ever put under a new id
MaxPuts == 52
\* changes of quality_score between consecutive new tracks
MaxQualitySwitches == 1
\* get, remove and put of a held track, once the cache is full
MaxTouches == 1

\* TrackMemory.__init__(max_size=50)
max_size == 50

\* quality_score of the tracks put, in hundredths
Qualities == {20, 80}

\* the ids held, in cache order
Keys(tracks) == [i \in DOMAIN tracks |-> tracks[i].track_id]
Position(tracks, track_id) ==
    CHOOSE i \in DOMAIN tracks : tracks[i].track_id = track_id
RemoveAt(tracks, i) ==
    SubSeq(tracks, 1, i - 1) \o SubSeq(tracks, i + 1, Len(tracks))

\* OrderedDict.move_to_end(track_id)
move_to_end_in_place(tracks, track_id) == tracks
move_to_end(tracks, track_id) ==
    LET i == Position(tracks, track_id)
    IN  Append(RemoveAt(tracks, i), tracks[i])

\* what the loop of _evict leaves in evict_id: the first candidate whose
\* quality_score is below that of every candidate before it and not above
\* that of any candidate after it
LowestOf(candidates) ==
    CHOOSE i \in DOMAIN candidates :
        /\ \A j \in 1..(i - 1) :
              candidates[j].quality_score > candidates[i].quality_score
        /\ \A j \in (i + 1)..Len(candidates) :
              candidates[j].quality_score >= candidates[i].quality_score

\* TrackMemory._evict()
_evict_anywhere(tracks) ==
    IF tracks = <<>> THEN tracks
    ELSE RemoveAt(tracks, LowestOf(tracks))
_evict(tracks) ==
    IF tracks = <<>> THEN tracks
    ELSE LET candidates == SubSeq(tracks, 1, Len(tracks) \div 2 + 1)
         IN  RemoveAt(tracks, LowestOf(candidates))

MemTrack(track_id, quality_score) ==
    [track_id |-> track_id, quality_score |-> quality_score]

NewTrackMemory == <<>>

\* nothing fed yet: no id, no quality, no switch, no touch
NothingFed == [puts |-> 0, last |-> 0, switches |-> 0, touches |-> 0]

\* the tracks of new ids the model puts: ids in the order of creation,
\* within the bounds
MayPut(quality_score) ==
    /\ mem_fed.puts < MaxPuts
    /\ (mem_fed.last \notin {0, quality_score}) =>
          mem_fed.switches < MaxQualitySwitches
FedPut(quality_score) ==
    [mem_fed EXCEPT !.puts = @ + 1, !.last = quality_score,
                    !.switches = IF mem_fed.last \in {0, quality_score}
                                 THEN @ ELSE @ + 1]

\* the oldest held track may be got, removed or put again once the cache
\* is full
MayTouch == Len(memory) = max_size /\ mem_fed.touches < MaxTouches
TouchIds == {memory[1].track_id}
FedTouch == [mem_fed EXCEPT !.touches = @ + 1]

\* TrackMemory.put(track)
put(track) ==
    /\ memory' =
         IF track.track_id \in Range(Keys(memory))
         THEN move_to_end(
                  [memory EXCEPT ![Position(memory, track.track_id)] = track],
                  track.track_id)
         ELSE Append(IF Len(memory) >= max_size THEN _evict(memory)
                     ELSE memory, track)
    /\ mem_arg' = track
    /\ last_op' = "put"
    /\ UNCHANGED <<detVars, vetoVars, trackVars, calcVars>>

\* TrackMemory.get(track_id)
get(track_id) ==
    /\ memory' = IF track_id \in Range(Keys(memory))
                 THEN move_to_end(memory, track_id) ELSE memory
    /\ mem_arg' = track_id
    /\ last_op' = "get"
    /\ UNCHANGED <<detVars, vetoVars, trackVars, calcVars>>

\* TrackMemory.remove(track_id)
remove(track_id) ==
    /\ memory' = IF track_id \in Range(Keys(memory))
                 THEN RemoveAt(memory, Position(memory, track_id))
                 ELSE memory
    /\ mem_arg' = track_id
    /\ last_op' = "remove"
    /\ UNCHANGED <<detVars, vetoVars, trackVars, calcVars>>

\* TrackMemory.count()
count(tracks) == Len(tracks)

\* TrackMemory.clear()
clear ==
    /\ memory' = <<>>
    /\ UNCHANGED mem_arg
    /\ last_op' = "clear"
    /\ UNCHANGED <<detVars, vetoVars, trackVars, calcVars>>

-----------------------------------------------------------------------------
(* Engine 3: compute_ttc_v2 *)

(* Timestamps are tenths of a second, positions decimetres, velocities     *)
(* metres per second (decimetres per tenth of a second) and safety margins *)
(* quarter decimetres (12.5 m is 500), so that every product the code      *)
(* forms is an integer.  Distances are kept squared.                       *)

\* predictions handed to one call
MaxPreds == 2

EMERGENCY_THRESHOLD == 10

\* ENGINE3_PARAMS['max_tracks_ttc']
max_tracks_ttc == 30

None == <<>>
IsNone(x) == DOMAIN x = {}

\* d.get(key, default)
DictGet(d, key, default) == IF key \in DOMAIN d THEN d[key] ELSE default

\* get_safety_margin(intent)
get_safety_margin(intent) ==
    IF IsNone(intent) THEN 200
    ELSE LET margins == [STATIC |-> 200, LEAVING |-> 160,
                         APPROACHING |-> 300, CROSSING |-> 400]
             margin  == DictGet(margins, intent.state, 200)
         IN  IF RatLT(Rat(1, 2), intent.distraction_prob)
             THEN (margin * 5) \div 4
             ELSE margin

\* np.linalg.norm(a - b), squared
Norm2(a, b) ==
    (a[1] - b[1]) * (a[1] - b[1]) + (a[2] - b[2]) * (a[2] - b[2])
      + (a[3] - b[3]) * (a[3] - b[3])

\* float('inf') as a squared distance
InfDist2 == 1073741824

\* distance_to_position(point, position), squared
distance_to_position(point, position) ==
    IF IsNone(point) \/ "position" \notin DOMAIN point THEN InfDist2
    ELSE Norm2(point.position, position)

\* sorted(predictions, key = distance of the first nominal point); the sort
\* is stable
sorted(predictions, train_pos) ==
    LET n      == Len(predictions)
        key(i) == distance_to_position(
                      DictGet(predictions[i].trajectories, "nominal",
                              <<None>>)[1], train_pos)
        rank(i) == Cardinality({j \in 1..n :
                      key(j) < key(i) \/ (key(j) = key(i) /\ j < i)}) + 1
    IN  [r \in 1..n |-> predictions[CHOOSE i \in 1..n : rank(i) = r]]

\* the timestamps one prediction appends to ttc_samples: its points that lie
\* within the margin, scenario by scenario
Candidates(pred, train_pos, train_vel) ==
    LET margin == get_safety_margin(pred.intent)
        traj   == DictGet(pred.trajectories, "optimistic", <<>>)
                    \o DictGet(pred.trajectories, "nominal", <<>>)
                    \o DictGet(pred.trajectories, "pessimistic", <<>>)
        Hit(point) ==
            LET t            == DictGet(point, "timestamp", 0)
                obj_pos      == DictGet(point, "position", <<0, 0, 100>>)
                train_future == [i \in 1..3 |-> train_pos[i] + train_vel[i] * t]
            IN  16 * Norm2(obj_pos, train_future) < margin * margin
        hits   == SelectSeq(traj, Hit)
    IN  [i \in 1..Len(hits) |-> DictGet(hits[i], "timestamp", 0)]

\* the timestamps appended over the loop, were it never left early
RECURSIVE AllCandidates(_, _, _)
AllCandidates(preds, train_pos, train_vel) ==
    IF preds = <<>> THEN <<>>
    ELSE Candidates(Head(preds), train_pos, train_vel)
           \o AllCandidates(Tail(preds), train_pos, train_vel)

\* The IEEE quotient np.mean returns against the exact mean: -1 below, 1
\* above, 0 equal.  It decides a comparison of the mean only when every
\* sample is the same value; halves of a second and their sums are exact,
\* n samples of 1.4 give 1.3999999999999997 for n = 3 and
\* 1.4000000000000001 for n = 6 and 7.
MeanRounding(ttc_samples) ==
    IF Range(ttc_samples) = {14} /\ Len(ttc_samples) <= 9
    THEN <<0, 0, -1, 0, 0, 1, 1, 0, 0>>[Len(ttc_samples)]
    ELSE 0

\* np.sum(ttc_samples), value by value
RECURSIVE SumByValue(_, _)
SumByValue(values, ttc_samples) ==
    IF values = {} THEN 0
    ELSE LET v == CHOOSE v \in values : TRUE
         IN  v * Cardinality({i \in DOMAIN ttc_samples : ttc_samples[i] = v})
               + SumByValue(values \ {v}, ttc_samples)
np_sum(ttc_samples) == SumByValue(Range(ttc_samples), ttc_samples)

TTCResult(min, mean, rounding, max, confidence) ==
    [min |-> min, mean |-> mean, rounding |-> rounding, max |-> max,
     confidence |-> confidence]

\* np.clip(x, lo, hi)
Clip(x, lo, hi) == IF x < lo THEN lo ELSE IF x > hi THEN hi ELSE x

\* compute_ttc_v2 leaving the loop with the least emergency sample instead
\* of the first
compute_ttc_v2_least_emergency(train_state, predictions, max_tracks_arg) ==
    IF predictions = <<>> THEN TTCResult(INF, Rat(INF, 1), 0, INF, 100)
    ELSE
    LET train_pos == IF IsNone(train_state) THEN <<0, 0, 0>>
                     ELSE train_state.position
        train_vel == IF IsNone(train_state) THEN <<0, 0, 10>>
                     ELSE train_state.velocity
        sorted_preds == sorted(predictions, train_pos)
        ttc_samples  == AllCandidates(
                            SubSeq(sorted_preds, 1,
                                   Min2(Len(sorted_preds), max_tracks_arg)),
                            train_pos, train_vel)
        early == {i \in 1..Len(ttc_samples) :
                     ttc_samples[i] < EMERGENCY_THRESHOLD}
    IN  IF early # {}
        THEN LET t == SetMin({ttc_samples[i] : i \in early})
             IN  TTCResult(t, Rat(t, 1), 0, t, 99)
        ELSE IF ttc_samples = <<>>
        THEN TTCResult(INF, Rat(INF, 1), 0, INF, 100)
        ELSE LET ttc_min == SetMin(Range(ttc_samples))
                 ttc_max == MaxOf(Range(ttc_samples))
                 spread  == ttc_max - ttc_min
             IN  TTCResult(ttc_min,
                           Rat(np_sum(ttc_samples), Len(ttc_samples)),
                           MeanRounding(ttc_samples), ttc_max,
                           Clip(100 - spread, 30, 100))

\* compute_ttc_v2(train_state, predictions, max_tracks)
compute_ttc_v2(train_state, predictions, max_tracks_arg) ==
    IF predictions = <<>> THEN TTCResult(INF, Rat(INF, 1), 0, INF, 100)
    ELSE
    LET train_pos == IF IsNone(train_state) THEN <<0, 0, 0>>
                     ELSE train_state.position
        train_vel == IF IsNone(train_state) THEN <<0, 0, 10>>
                     ELSE train_state.velocity
        sorted_preds == sorted(predictions, train_pos)
        ttc_samples  == AllCandidates(
                            SubSeq(sorted_preds, 1,
                                   Min2(Len(sorted_preds), max_tracks_arg)),
                            train_pos, train_vel)
        early == {i \in 1..Len(ttc_samples) :
                     ttc_samples[i] < EMERGENCY_THRESHOLD}
    IN  IF early # {}
        THEN LET t == ttc_samples[SetMin(early)]
             IN  TTCResult(t, Rat(t, 1), 0, t, 99)
        ELSE IF ttc_samples = <<>>
        THEN TTCResult(INF, Rat(INF, 1), 0, INF, 100)
        ELSE LET ttc_min == SetMin(Range(ttc_samples))
                 ttc_max == MaxOf(Range(ttc_samples))
                 spread  == ttc_max - ttc_min
             IN  TTCResult(ttc_min,
                           Rat(np_sum(ttc_samples), Len(ttc_samples)),
                           MeanRounding(ttc_samples), ttc_max,
                           Clip(100 - spread, 30, 100))

\* trajectory points: 0.5 s, 1.4 s and 9.0 s ahead, each a few metres
\* beyond where a train running at 10 m/s from the origin is by then
Points ==
    {[position |-> <<0, 0, 110>>, timestamp |-> 5],
     [position |-> <<0, 0, 170>>, timestamp |-> 14],
     [position |-> <<0, 0, 960>>, timestamp |-> 90]}

ScenarioNames == {"optimistic", "nominal", "pessimistic"}

\* trajectories: a one-point list under any of the scenario names
Trajectories ==
    UNION {[S -> {<<p>> : p \in Points}] : S \in SUBSET ScenarioNames}

Intents == {None, [state |-> "CROSSING", distraction_prob |-> Rat(6, 10)]}

Predictions == [trajectories : Trajectories, intent : Intents]

TrainStates ==
    {None, [position |-> <<0, 0, 20>>, velocity |-> <<0, 0, 10>>]}

\* the vehicle at the origin at 10 m/s and one STATIC track predicted 5 m
\* ahead of the origin at t = 1.0 s
StaticTrackAhead ==
    [train_state |-> [position |-> <<0, 0, 0>>, velocity |-> <<0, 0, 10>>],
     predictions |->
        <<[trajectories |->
              [s \in ScenarioNames |->
                  <<[position |-> <<0, 0, 50>>, timestamp |-> 10]>>],
           intent |-> [state |-> "STATIC", distraction_prob |-> Rat(0, 1)]]>>]

\* the vehicle at the origin at 10 m/s; the nearer track is within its
\* margin at 0.8 s (optimistic) and at 0.5 s (nominal), the farther one at
\* 0.3 s
EmergencyThenEarlier ==
    [train_state |-> [position |-> <<0, 0, 0>>, velocity |-> <<0, 0, 10>>],
     predictions |->
        <<[trajectories |->
              [nominal |-> <<[position |-> <<0, 0, 70>>, timestamp |-> 3]>>],
           intent |-> None],
          [trajectories |->
              [optimistic |->
                  <<[position |-> <<0, 0, 90>>, timestamp |-> 8]>>,
               nominal |->
                  <<[position |-> <<0, 0, 60>>, timestamp |-> 5]>>],
           intent |-> None]>>]

TTCInputs ==
    [train_state : TrainStates,
     predictions : UNION {[1..n -> Predictions] : n \in 0..MaxPreds}]
      \cup {StaticTrackAhead, EmergencyThenEarlier}

NoTTCInput == [train_state |-> None, predictions |-> <<>>]
NoTTCResult == TTCResult(0, Rat(0, 1), 0, 0, 0)

\* Engine3Behavior._compute_ttc(train_state, predictions)
_compute_ttc ==
    /\ last_op = "init"
    /\ ttc_result' = compute_ttc_v2(ttc_in.train_state, ttc_in.predictions,
                                    max_tracks_ttc)
    /\ last_op' = "_compute_ttc"
    /\ UNCHANGED <<detVars, vetoVars, trackVars, memVars, ttc_in, assoc, tom, scored, behaviorVars>>

-----------------------------------------------------------------------------
(* Engine 2: associate_detections *)

(* Detections and tracks are given by their number (the code reads only    *)
(* their length), lists hold 0-based indices, costs and thresholds are     *)
(* hundredths, embeddings are unit vectors.                                *)

\* detections and tracks handed to one call
MaxAssocDetections == 2
MaxAssocTracks == 1
\* calls on the same arguments
MaxRuns == 2

\* list(range(n))
ListRange(n) == [i \in 1..n |-> i - 1]

Matrix(rows, cols, at) == [rows |-> rows, cols |-> cols, at |-> at]

\* the values np.random.rand may fill the IoU matrix with
IoUValues == {10, 90}

\* compute_iou_matrix(bboxes_a, bboxes_b): every matrix it may return
compute_iou_matrix(bboxes_a, bboxes_b) ==
    IF bboxes_a = 0 \/ bboxes_b = 0
    THEN {Matrix(bboxes_a, bboxes_b, <<>>)}
    ELSE {Matrix(bboxes_a, bboxes_b, at) :
             at \in [(0..(bboxes_a - 1)) \X (0..(bboxes_b - 1)) -> IoUValues]}

Dot(a, b) == a[1] * b[1] + a[2] * b[2]

\* compute_cosine_distance(features_a, features_b), on unit vectors
compute_cosine_distance(features_a, features_b) ==
    Matrix(Len(features_a), Len(features_b),
           [p \in (0..(Len(features_a) - 1)) \X (0..(Len(features_b) - 1)) |->
               100 - 100 * Dot(features_a[p[1] + 1], features_b[p[2] + 1])])

Matching(matched, unmatched_dets, unmatched_tracks) ==
    [matched |-> matched, unmatched_dets |-> unmatched_dets,
     unmatched_tracks |-> unmatched_tracks]

\* hungarian_matching(cost_matrix, threshold)
hungarian_matching_first_pair(cost_matrix, threshold) ==
    IF cost_matrix.rows > 0 /\ cost_matrix.cols > 0
         /\ cost_matrix.at[<<0, 0>>] < threshold
    THEN Matching(0 :> 0, Tail(ListRange(cost_matrix.rows)),
                  Tail(ListRange(cost_matrix.cols)))
    ELSE Matching(<<>>, ListRange(cost_matrix.rows),
                  ListRange(cost_matrix.cols))
hungarian_matching(cost_matrix, threshold) ==
    Matching(<<>>, ListRange(cost_matrix.rows), ListRange(cost_matrix.cols))

\* features[indices]
Take(features, indices) ==
    [i \in 1..Len(indices) |-> features[indices[i] + 1]]

\* associate_detections(detections, tracks, features_det, features_track),
\* given the matrix compute_iou_matrix returned
associate_detections(detections, tracks, features_det, features_track, iou_matrix) ==
    IF tracks = 0 THEN Matching(<<>>, ListRange(detections), <<>>)
    ELSE IF detections = 0 THEN Matching(<<>>, <<>>, ListRange(tracks))
    ELSE
    LET cost_iou == Matrix(iou_matrix.rows, iou_matrix.cols,
                           [p \in DOMAIN iou_matrix.at |->
                               100 - iou_matrix.at[p]])
        stage1   == hungarian_matching(cost_iou, 100 - 30)
    IN  IF Len(stage1.unmatched_dets) > 0 /\ Len(stage1.unmatched_tracks) > 0
        THEN LET cost_reid ==
                     compute_cosine_distance(
                         Take(features_det, stage1.unmatched_dets),
                         Take(features_track, stage1.unmatched_tracks))
                 stage2 == hungarian_matching(cost_reid, 40)
                 merged ==
                     [d \in {stage1.unmatched_dets[i + 1] :
                                i \in DOMAIN stage2.matched} |->
                         LET i == CHOOSE i \in DOMAIN stage2.matched :
                                     stage1.unmatched_dets[i + 1] = d
                         IN  stage1.unmatched_tracks[stage2.matched[i] + 1]]
             IN  Matching(merged @@ stage1.matched,
                          Take(stage1.unmatched_dets, stage2.unmatched_dets),
                          Take(stage1.unmatched_tracks,
                               stage2.unmatched_tracks))
        ELSE stage1

Embeddings == {<<1, 0>>, <<0, 1>>}

\* the arguments of associate_detections
AssociationArgs ==
    UNION {[detections : {n}, tracks : {m},
            features_det : [1..n -> Embeddings],
            features_track : [1..m -> Embeddings]] :
              n \in 0..MaxAssocDetections, m \in 0..MaxAssocTracks}

\* the arguments, the number of calls made on them, the IoU matrix the last
\* call drew, whether it differs from the one before, what the call returned
NoRuns(args) ==
    [args |-> args, runs |-> 0, iou |-> Matrix(0, 0, <<>>),
     redrawn |-> FALSE, out |-> Matching(<<>>, <<>>, <<>>)]
NoAssociation == NoRuns([detections |-> 0, tracks |-> 0,
                         features_det |-> <<>>, features_track |-> <<>>])

\* one more call of associate_detections on the same arguments
associate ==
    /\ assoc.runs < MaxRuns
    /\ \E iou_matrix \in compute_iou_matrix(assoc.args.detections,
                                           assoc.args.tracks) :
          assoc' = [assoc EXCEPT
                      !.runs = @ + 1,
                      !.iou = iou_matrix,
                      !.redrawn = assoc.runs > 0 /\ iou_matrix # assoc.iou,
                      !.out = associate_detections(
                                  assoc.args.detections, assoc.args.tracks,
                                  assoc.args.features_det,
                                  assoc.args.features_track, iou_matrix)]
    /\ last_op' = "associate_detections"
    /\ UNCHANGED <<detVars, vetoVars, trackVars, memVars, ttcVars, tom, scored, behaviorVars>>

-----------------------------------------------------------------------------
(* Engine 3: Theory of Mind, infer_intent_v2 *)

(* Probabilities are exact rationals.  Velocities are whole metres per     *)
(* second, body_pose angles hundredths of pi (body_pose[1]) and hundredths *)
(* of a radian (body_pose[15]).                                            *)

\* calls of infer_intent_v2 for one track
MaxInferences == 2

Lcm(a, b) == (a \div Gcd(a, b)) * b
\* a + b over the least common denominator
RatPlus(a, b) ==
    LET l == Lcm(a.den, b.den)
    IN  Rat(a.num * (l \div a.den) + b.num * (l \div b.den), l)
RatDiv(a, b) == Rat(a.num * b.den, a.den * b.num)
\* a < b over the least common denominator
RatLess(a, b) ==
    LET l == Lcm(a.den, b.den)
    IN  a.num * (l \div a.den) < b.num * (l \div b.den)

INTENT_STATES == <<"STATIC", "LEAVING", "APPROACHING", "CROSSING">>

Probs(static, leaving, approaching, crossing) ==
    [STATIC |-> static, LEAVING |-> leaving, APPROACHING |-> approaching,
     CROSSING |-> crossing]

CONTEXT_PRIORS ==
    [LEVEL_CROSSING |-> Probs(Rat(25, 100), Rat(25, 100), Rat(25, 100), Rat(25, 100)),
     PLATFORM       |-> Probs(Rat(55, 100), Rat(25, 100), Rat(15, 100), Rat(5, 100)),
     OPEN_TRACK     |-> Probs(Rat(40, 100), Rat(30, 100), Rat(20, 100), Rat(10, 100)),
     CROSSING       |-> Probs(Rat(25, 100), Rat(25, 100), Rat(25, 100), Rat(25, 100))]

\* get_context_priors(scene_context)
get_context_priors(scene_context) ==
    DictGet(CONTEXT_PRIORS, scene_context, CONTEXT_PRIORS.OPEN_TRACK)

\* is_facing_track(smpl_params), hundredths
is_facing_track(smpl_params) ==
    IF IsNone(smpl_params) THEN 50
    ELSE 100 - (smpl_params.body_pose[1] % 100)

\* is_moving_towards_track(velocity), hundredths
is_moving_towards_track(velocity) ==
    IF 10 * velocity[3] < -1 THEN 100
    ELSE IF 10 * velocity[3] > 1 THEN 0
    ELSE 50

\* is_head_down(smpl_params): 1 or 0
is_head_down(smpl_params) ==
    IF smpl_params.body_pose[15] > 30 THEN 1 ELSE 0

\* compute_distraction(smpl_params, track)
compute_distraction(smpl_params) ==
    IF IsNone(smpl_params) THEN Rat(3, 10)
    ELSE Rat(25 * is_head_down(smpl_params), 100)

\* compute_gaze_awareness(smpl_params, train_state)
compute_gaze_awareness(smpl_params) ==
    IF IsNone(smpl_params) THEN Rat(1, 2)
    ELSE Rat(is_facing_track(smpl_params) * (1 - is_head_down(smpl_params)),
             100)

\* sum(probs.values())
Total(probs) ==
    RatPlus(RatPlus(probs.STATIC, probs.LEAVING),
            RatPlus(probs.APPROACHING, probs.CROSSING))

Scale(probs, state, factor) ==
    [probs EXCEPT ![state] = RatMul(@, factor)]

\* update_bayesian(priors, observations); velocity is the squared magnitude
update_bayesian_unnormalised(priors, velocity2, facing, moving_towards) ==
    LET p1 == IF 100 * velocity2 < 1
              THEN Scale(Scale(priors, "STATIC", Rat(2, 1)),
                         "CROSSING", Rat(1, 2))
              ELSE priors
        p2 == IF moving_towards > 70
              THEN Scale(Scale(p1, "APPROACHING", Rat(2, 1)),
                         "LEAVING", Rat(3, 10))
              ELSE p1
        p3 == IF moving_towards < 30
              THEN Scale(Scale(p2, "LEAVING", Rat(2, 1)),
                         "APPROACHING", Rat(3, 10))
              ELSE p2
    IN  IF 4 * velocity2 > 1 /\ facing > 70
        THEN Scale(p3, "CROSSING", Rat(2, 1))
        ELSE p3
update_bayesian(priors, velocity2, facing, moving_towards) ==
    LET p1 == IF 100 * velocity2 < 1
              THEN Scale(Scale(priors, "STATIC", Rat(2, 1)),
                         "CROSSING", Rat(1, 2))
              ELSE priors
        p2 == IF moving_towards > 70
              THEN Scale(Scale(p1, "APPROACHING", Rat(2, 1)),
                         "LEAVING", Rat(3, 10))
              ELSE p1
        p3 == IF moving_towards < 30
              THEN Scale(Scale(p2, "LEAVING", Rat(2, 1)),
                         "APPROACHING", Rat(3, 10))
              ELSE p2
        posteriors == IF 4 * velocity2 > 1 /\ facing > 70
                      THEN Scale(p3, "CROSSING", Rat(2, 1))
                      ELSE p3
        total == Total(posteriors)
    IN  [k \in DOMAIN posteriors |-> RatDiv(posteriors[k], total)]

\* max(probs, key=probs.get): the first state, in INTENT_STATES order, that
\* no state exceeds
ArgMax(probs) ==
    INTENT_STATES[
        SetMin({i \in 1..4 :
                   \A j \in 1..4 :
                      ~RatLess(probs[INTENT_STATES[i]],
                                 probs[INTENT_STATES[j]])})]

Intent(state, distraction_prob, awareness_prob, action_confidence, probs, smoothed) ==
    [state |-> state, distraction_prob |-> distraction_prob,
     awareness_prob |-> awareness_prob,
     action_confidence |-> action_confidence, probs |-> probs,
     smoothed |-> smoothed]

\* alpha * current + (1 - alpha) * previous, alpha = 0.7
Ema(current, previous) ==
    RatPlus(RatMul(Rat(7, 10), current), RatMul(Rat(3, 10), previous))

\* smooth_intent(current_intent, intent_history, alpha = 0.7)
smooth_intent(current_intent, intent_history) ==
    IF intent_history = <<>>
    THEN [current_intent EXCEPT !.smoothed = TRUE]
    ELSE LET previous == intent_history[Len(intent_history)]
             smoothed_probs ==
                 [k \in DOMAIN current_intent.probs |->
                     Ema(current_intent.probs[k], previous.probs[k])]
             smoothed_state == ArgMax(smoothed_probs)
         IN  Intent(smoothed_state,
                    Ema(current_intent.distraction_prob,
                        previous.distraction_prob),
                    current_intent.awareness_prob,
                    smoothed_probs[smoothed_state], smoothed_probs, TRUE)

\* infer_intent_v2(track, smpl_params, context, intent_history, train_state)
infer_intent_v2(velocity, smpl_params, context, intent_history) ==
    LET priors   == get_context_priors(context)
        velocity2 == velocity[1] * velocity[1] + velocity[2] * velocity[2]
                       + velocity[3] * velocity[3]
        facing_track     == is_facing_track(smpl_params)
        moving_towards   == is_moving_towards_track(velocity)
        distraction_prob == compute_distraction(smpl_params)
        awareness_prob   == compute_gaze_awareness(smpl_params)
        posteriors == update_bayesian(priors, velocity2, facing_track,
                                      moving_towards)
        state      == ArgMax(posteriors)
    IN  smooth_intent(Intent(state, distraction_prob, awareness_prob,
                             posteriors[state], posteriors, FALSE),
                      intent_history)

\* self.prev_intents[track_id][-5:]
LastFive(s) == IF Len(s) > 5 THEN SubSeq(s, Len(s) - 4, Len(s)) ELSE s

Velocities == {<<0, 0, 0>>, <<0, 0, -1>>, <<1, 0, 1>>}

PoseOf(facing_angle, head_tilt) ==
    [body_pose |-> (1 :> facing_angle) @@ (15 :> head_tilt)]

SmplParams == {None, PoseOf(0, 40), PoseOf(50, 0)}

SceneContexts == {"PLATFORM", "OPEN_TRACK", "LEVEL_CROSSING"}

NoInference ==
    [history |-> <<>>, calls |-> 0,
     out |-> Intent("NONE", Rat(0, 1), Rat(0, 1), Rat(0, 1),
                    Probs(Rat(0, 1), Rat(0, 1), Rat(0, 1), Rat(0, 1)),
                    FALSE)]

\* Engine3Behavior._infer_intent, for one track: infer_intent_v2 on the
\* intents returned so far, the result appended to them
_infer_intent(velocity, smpl_params, context) ==
    /\ tom.calls < MaxInferences
    /\ LET intent == infer_intent_v2(velocity, smpl_params, context,
                                     tom.history)
       IN  tom' = [history |-> LastFive(Append(tom.history, intent)),
                   calls |-> tom.calls + 1, out |-> intent]
    /\ last_op' = "infer_intent_v2"
    /\ UNCHANGED <<detVars, vetoVars, trackVars, memVars, ttcVars, assoc, scored, behaviorVars>>

-----------------------------------------------------------------------------
(* Engine 2: Track.compute_quality_score *)

\* age and time_since_update of the track scored
MaxScoredAge == 31

RatMin(a, b) == IF RatLess(b, a) THEN b ELSE a
RatMax(a, b) == IF RatLess(a, b) THEN b ELSE a

\* Track.compute_quality_score(self): the value stored and returned
compute_quality_score_unclamped(self) ==
    LET age_factor     == Rat(self.age, 30)
        match_factor   == self.match_frequency
        conf_factor    == self.confidence
        recency_factor == RatSub(Rat(1, 1), Rat(self.time_since_update, 30))
    IN  RatPlus(RatPlus(RatMul(Rat(3, 10), age_factor),
                        RatMul(Rat(3, 10), match_factor)),
                RatPlus(RatMul(Rat(2, 10), conf_factor),
                        RatMul(Rat(2, 10), recency_factor)))
compute_quality_score(self) ==
    LET age_factor     == RatMin(Rat(self.age, 30), Rat(1, 1))
        match_factor   == self.match_frequency
        conf_factor    == self.confidence
        recency_factor == RatSub(Rat(1, 1), Rat(self.time_since_update, 30))
    IN  RatPlus(RatPlus(RatMul(Rat(3, 10), age_factor),
                        RatMul(Rat(3, 10), match_factor)),
                RatPlus(RatMul(Rat(2, 10), conf_factor),
                        RatMul(Rat(2, 10), RatMax(recency_factor, Rat(0, 1)))))

\* match_frequency and confidence of the track scored, hundredths
Frequencies == {0, 35, 100}

ScoredTracks ==
    {[age |-> a, time_since_update |-> t, match_frequency |-> Rat(f, 100),
      confidence |-> Rat(c, 100), quality_score |-> Rat(0, 1)] :
        a \in 0..MaxScoredAge, t \in 0..MaxScoredAge,
        f \in Frequencies, c \in Frequencies}

UnscoredTrack ==
    [age |-> 0, time_since_update |-> 0, match_frequency |-> Rat(0, 1),
     confidence |-> Rat(0, 1), quality_score |-> Rat(0, 1)]

\* track.compute_quality_score()
score_track ==
    /\ last_op = "init"
    /\ scored' = [scored EXCEPT !.quality_score = compute_quality_score(scored)]
    /\ last_op' = "compute_quality_score"
    /\ UNCHANGED <<detVars, vetoVars, trackVars, memVars, ttcVars, assoc, tom, behaviorVars>>

-----------------------------------------------------------------------------
(* Engine 3: Engine3Behavior *)

(* Track positions are decimetres and whole metres, velocities whole       *)
(* metres per second, so that the 0.9 and 1.1 scalings of the predictor    *)
(* and the pinhole conversion of the flow stay in integers.  Risks are     *)
(* exact rationals.                                                        *)

\* tracks handed to one process call
MaxFrameTracks == 2
\* process calls since construction
MaxFrames == 2

\* ENGINE3_PARAMS['horizons'], tenths of a second
horizons == <<10, 20, 30, 40, 50>>

\* ENGINE3_PARAMS['base_safety_margin'], metres
base_safety_margin == 5

\* VALIDATION_THRESHOLD = 1.5 m/s, in units of 1/500 m/s (fx = fy = 500)
VALIDATION_THRESHOLD == 750

\* hasattr(track, 'bbox_3d') and track.bbox_3d
HasBBox(track) == "bbox_3d" \in DOMAIN track /\ ~IsNone(track.bbox_3d)

PointAt(position, t) ==
    [position |-> position, timestamp |-> t, uncertainty |-> (t * t) \div 100]

\* predict_kinematic_v2(track, horizons)
predict_kinematic_v2(track, hs) ==
    LET p == IF HasBBox(track)
             THEN <<track.bbox_3d.x, track.bbox_3d.y, track.bbox_3d.z>>
             ELSE <<0, 0, 100>>
        v == DictGet(track, "velocity", <<0, 0, 0>>)
        a == DictGet(track, "acceleration", <<0, 0, 0>>)
        future(i, t) == p[i] + v[i] * t + (a[i] * t * t) \div 20
    IN  [optimistic |->
            [k \in DOMAIN hs |->
                PointAt(<<(future(1, hs[k]) * 9) \div 10,
                          (future(2, hs[k]) * 9) \div 10,
                          (future(3, hs[k]) * 11) \div 10>>, hs[k])],
         nominal |->
            [k \in DOMAIN hs |->
                PointAt(<<future(1, hs[k]), future(2, hs[k]),
                          future(3, hs[k])>>, hs[k])],
         pessimistic |->
            [k \in DOMAIN hs |->
                PointAt(<<(future(1, hs[k]) * 11) \div 10,
                          (future(2, hs[k]) * 11) \div 10,
                          (future(3, hs[k]) * 9) \div 10>>, hs[k])]]

\* cross_validate_trajectory(kinematic_pred, optical_flow, track); the flow
\* field is uniform: [h, w, u, v]
cross_validate_trajectory(kinematic_pred, optical_flow, track) ==
    IF IsNone(optical_flow) THEN "UNVALIDATED"
    ELSE IF ~HasBBox(track) THEN "UNVALIDATED"
    ELSE
    LET x == track.bbox_3d.x \div 10
        y == track.bbox_3d.y \div 10
        depth   == track.bbox_3d.z \div 10
        nominal == DictGet(kinematic_pred, "nominal", <<>>)
    IN  IF x < 0 \/ x >= optical_flow.w \/ y < 0 \/ y >= optical_flow.h
        THEN "UNVALIDATED"
        ELSE IF Len(nominal) < 2 THEN "UNVALIDATED"
        ELSE
        LET p0 == DictGet(nominal[1], "position", <<0, 0, 0>>)
            p1 == DictGet(nominal[2], "position", <<0, 0, 0>>)
            t0 == DictGet(nominal[1], "timestamp", 0)
            t1 == DictGet(nominal[2], "timestamp", 10)
            dt == IF t1 # t0 THEN t1 - t0 ELSE 10
            \* 500 * (kinematic_velocity - flow_velocity), first two axes
            dx == (500 * (p1[1] - p0[1])) \div dt - optical_flow.u * depth
            dy == (500 * (p1[2] - p0[2])) \div dt - optical_flow.v * depth
        IN  IF dx * dx + dy * dy > VALIDATION_THRESHOLD * VALIDATION_THRESHOLD
            THEN "UNCERTAIN"
            ELSE "VALIDATED"

\* compute_risk_score_v2(track, intent, ttc_result, prev_risk)
compute_risk_score_v2_unclipped(track, intent, ttc_res, prev_risk) ==
    LET ttc == ttc_res.min
        ttc_factor == IF ttc = INF THEN Rat(0, 1)
                      ELSE Rat(100 - Min2(ttc, 100), 100)
        intent_weights == [STATIC |-> 10, LEAVING |-> 20,
                           APPROACHING |-> 70, CROSSING |-> 100]
        intent_factor == Rat(DictGet(intent_weights, intent.state, 50), 100)
        category_weights == [PERSON |-> 100, KNOWN |-> 70, UNKNOWN |-> 30]
        category == DictGet(track, "category", "UNKNOWN")
        category_factor == Rat(DictGet(category_weights, category, 50), 100)
        quality_score == DictGet(track, "quality_score", Rat(1, 2))
        quality_factor == RatSub(Rat(1, 1), quality_score)
        raw_risk ==
            RatPlus(RatPlus(RatPlus(RatMul(Rat(35, 100), ttc_factor),
                                    RatMul(Rat(25, 100), intent_factor)),
                            RatPlus(RatMul(Rat(15, 100), intent.distraction_prob),
                                    RatMul(Rat(10, 100), category_factor))),
                    RatMul(Rat(15, 100), quality_factor))
        confidence_adjusted ==
            RatMul(raw_risk, Rat(200 - ttc_res.confidence, 100))
    IN  IF IsNone(prev_risk) THEN confidence_adjusted
        ELSE RatPlus(RatMul(Rat(7, 10), confidence_adjusted),
                     RatMul(Rat(3, 10), prev_risk))
compute_risk_score_v2(track, intent, ttc_res, prev_risk) ==
    LET ttc == ttc_res.min
        ttc_factor == IF ttc = INF THEN Rat(0, 1)
                      ELSE Rat(100 - Min2(ttc, 100), 100)
        intent_weights == [STATIC |-> 10, LEAVING |-> 20,
                           APPROACHING |-> 70, CROSSING |-> 100]
        intent_factor == Rat(DictGet(intent_weights, intent.state, 50), 100)
        category_weights == [PERSON |-> 100, KNOWN |-> 70, UNKNOWN |-> 30]
        category == DictGet(track, "category", "UNKNOWN")
        category_factor == Rat(DictGet(category_weights, category, 50), 100)
        quality_score == DictGet(track, "quality_score", Rat(1, 2))
        quality_factor == RatSub(Rat(1, 1), quality_score)
        raw_risk ==
            RatPlus(RatPlus(RatPlus(RatMul(Rat(35, 100), ttc_factor),
                                    RatMul(Rat(25, 100), intent_factor)),
                            RatPlus(RatMul(Rat(15, 100), intent.distraction_prob),
                                    RatMul(Rat(10, 100), category_factor))),
                    RatMul(Rat(15, 100), quality_factor))
        confidence_adjusted ==
            RatMul(raw_risk, Rat(200 - ttc_res.confidence, 100))
        final_risk ==
            IF IsNone(prev_risk) THEN confidence_adjusted
            ELSE RatPlus(RatMul(Rat(7, 10), confidence_adjusted),
                         RatMul(Rat(3, 10), prev_risk))
    IN  RatMax(Rat(0, 1), RatMin(final_risk, Rat(1, 1)))

\* Engine3Behavior._determine_validation(predictions)
_determine_validation_no_empty_case(predictions) ==
    LET validated_count ==
            Cardinality({i \in DOMAIN predictions : predictions[i].validated})
    IN  IF validated_count > 0 /\ validated_count = Len(predictions)
        THEN "VALIDATED"
        ELSE IF validated_count > 0 THEN "PARTIAL"
        ELSE "UNCERTAIN"
_determine_validation(predictions) ==
    IF predictions = <<>> THEN "OK"
    ELSE LET validated_count ==
                 Cardinality({i \in DOMAIN predictions :
                                 predictions[i].validated})
         IN  IF validated_count = Len(predictions) THEN "VALIDATED"
             ELSE IF validated_count > 0 THEN "PARTIAL"
             ELSE "UNCERTAIN"

\* Engine3Behavior._compute_safety_margin(predictions), metres
_compute_safety_margin(predictions) ==
    LET multiplier(pred) ==
            LET m == IF pred.intent.state = "CROSSING" THEN Rat(2, 1)
                     ELSE IF pred.intent.state = "APPROACHING" THEN Rat(3, 2)
                     ELSE IF pred.intent.state = "LEAVING" THEN Rat(8, 10)
                     ELSE Rat(1, 1)
            IN  IF RatLT(Rat(1, 2), pred.intent.distraction_prob)
                THEN RatMul(m, Rat(5, 4)) ELSE m
        candidates == {Rat(1, 1)}
                        \cup {multiplier(predictions[i]) :
                                 i \in DOMAIN predictions}
        max_multiplier ==
            CHOOSE m \in candidates : \A n \in candidates : ~RatLess(m, n)
    IN  RatMul(Rat(base_safety_margin, 1), max_multiplier)

\* Prediction(track_id, trajectories, intent, ..., risk_score, validated)
Prediction(track_id, trajectories, intent, risk_score, validated) ==
    [track_id |-> track_id, trajectories |-> trajectories, intent |-> intent,
     risk_score |-> risk_score, validated |-> validated]

\* d[key] = value
DictPut(d, key, value) ==
    [k \in DOMAIN d \cup {key} |-> IF k = key THEN value ELSE d[k]]

\* Engine3Behavior._predict_kinematic(track)
_predict_kinematic_half_second(track) ==
    predict_kinematic_v2(track, <<5, 10, 20, 30, 40, 50>>)
_predict_kinematic(track) == predict_kinematic_v2(track, horizons)

\* Engine3Behavior._cross_validate(trajectories, optical_flow, track)
_cross_validate(trajectories, optical_flow, track) ==
    cross_validate_trajectory(trajectories, optical_flow, track) = "VALIDATED"

\* Engine3Behavior.__init__
NewEngine3 == [prev_intents |-> <<>>, prev_risks |-> <<>>]

(* Engine3Behavior.process(tracks, train_state, danger_zones, scene_context, *)
(* optical_flow) on tracks of distinct ids, stage by stage; each stage is   *)
(* handed what the stages before it computed.                               *)

\* the loop over the tracks: trajectories, intent, validated
first_loop(self, tracks, scene_context, optical_flow) ==
    SubSeq([i \in 1..Len(tracks) |->
               Prediction(tracks[i].track_id, _predict_kinematic(tracks[i]),
                          infer_intent_v2(
                              DictGet(tracks[i], "velocity", <<0, 0, 0>>),
                              None, scene_context,
                              DictGet(self.prev_intents, tracks[i].track_id,
                                      <<>>)),
                          Rat(0, 1),
                          IF IsNone(optical_flow) THEN FALSE
                          ELSE _cross_validate(_predict_kinematic(tracks[i]),
                                               optical_flow, tracks[i]))],
           1, Len(tracks))

\* the loop over the predictions: the risk of each, from the first track
second_loop(self, tracks, preds, ttc_now) ==
    SubSeq([i \in 1..Len(preds) |->
               [preds[i] EXCEPT !.risk_score =
                   compute_risk_score_v2(
                       tracks[1], preds[i].intent, ttc_now,
                       DictGet(self.prev_risks, preds[i].track_id, None))]],
           1, Len(preds))

\* the object after the call and the dict returned
returned(self, ttc_now, predictions) ==
    LET ids == {predictions[i].track_id : i \in DOMAIN predictions}
        at(k) == CHOOSE i \in DOMAIN predictions : predictions[i].track_id = k
    IN  [self |->
            [prev_intents |->
                [k \in DOMAIN self.prev_intents \cup ids |->
                    IF k \in ids
                    THEN LastFive(Append(DictGet(self.prev_intents, k, <<>>),
                                         predictions[at(k)].intent))
                    ELSE self.prev_intents[k]],
             prev_risks |->
                [k \in DOMAIN self.prev_risks \cup ids |->
                    IF k \in ids THEN predictions[at(k)].risk_score
                    ELSE self.prev_risks[k]]],
         out |->
            [predictions |-> predictions,
             risk_scores |-> [k \in ids |-> predictions[at(k)].risk_score],
             ttc |-> ttc_now,
             safety_margin |-> _compute_safety_margin(predictions),
             validation_status |-> _determine_validation(predictions)]]

\* steps 7 to 9, given the predictions and the TTC result
after_ttc(self, tracks, preds, ttc_now) ==
    returned(self, ttc_now, second_loop(self, tracks, preds, ttc_now))

\* steps 6 to 9, given the predictions
after_first_loop(self, tracks, train_state, preds) ==
    after_ttc(self, tracks, preds,
              compute_ttc_v2(train_state, preds, max_tracks_ttc))

Engine3Behavior_process(self, tracks, train_state, scene_context, optical_flow) ==
    after_first_loop(self, tracks, train_state,
                     first_loop(self, tracks, scene_context, optical_flow))

\* Track(track_id, category, bbox_3d, velocity, quality_score)
Track(track_id, category, bbox_3d, velocity, quality_score) ==
    [track_id |-> track_id, category |-> category, bbox_3d |-> bbox_3d,
     velocity |-> velocity, quality_score |-> quality_score]

BBox3D(x, y, z) == [x |-> x, y |-> y, z |-> z]

\* a person 6 m ahead walking towards the vehicle, an unknown object at
\* rest 50 m ahead, a known object without a 3D box moving away
PersonAhead  == Track(1, "PERSON", BBox3D(0, 0, 60), <<0, 0, -1>>, Rat(0, 1))
ObjectAtRest == Track(2, "UNKNOWN", BBox3D(0, 0, 500), <<0, 0, 0>>, Rat(4, 5))
NoBoxLeaving == Track(3, "KNOWN", None, <<1, 0, 1>>, Rat(1, 2))

TrackCatalogue == {PersonAhead, ObjectAtRest, NoBoxLeaving}

\* lists of tracks of distinct ids
TrackLists ==
    UNION {{s \in [1..n -> TrackCatalogue] :
               \A i, j \in 1..n : s[i] = s[j] => i = j} :
           n \in 0..MaxFrameTracks}

\* one track more than compute_ttc_v2 evaluates: max_tracks_ttc objects at
\* rest 6 m ahead and, last in the list, a person 8.5 m ahead who walks
\* towards the vehicle at 3 m/s
CrowdedFrame ==
    SubSeq([i \in 1..(max_tracks_ttc + 1) |->
               IF i <= max_tracks_ttc
               THEN Track(9 + i, "UNKNOWN", BBox3D(0, 0, 60), <<0, 0, 0>>,
                          Rat(4, 5))
               ELSE Track(9 + i, "PERSON", BBox3D(0, 0, 85), <<0, 0, -3>>,
                          Rat(0, 1))],
           1, max_tracks_ttc + 1)

\* optical_flow: None, or a one-pixel field of 50 px/s along x
OpticalFlows == {None, [h |-> 1, w |-> 1, u |-> 50, v |-> 0]}

\* the vehicle at the origin at 10 m/s
TrainAtOrigin == [position |-> <<0, 0, 0>>, velocity |-> <<0, 0, 10>>]

\* scene_context: a level crossing, where the priors are uniform and a
\* track moving towards the vehicle is inferred APPROACHING
FrameContexts == {"CROSSING"}

NoCall ==
    [tracks |-> <<>>, scene_context |-> "OPEN_TRACK", optical_flow |-> None,
     frames |-> 0]

NoOutput ==
    [predictions |-> <<>>, risk_scores |-> <<>>, ttc |-> NoTTCResult,
     safety_margin |-> Rat(0, 1), validation_status |-> "NONE"]

\* one call of Engine3Behavior.process
call_process(tracks, scene_context, optical_flow) ==
    /\ e3_call.frames < MaxFrames
    /\ LET r == Engine3Behavior_process(engine3, tracks, TrainAtOrigin,
                                        scene_context, optical_flow)
       IN  /\ engine3' = r.self
           /\ e3_out' = r.out
    /\ e3_call' = [tracks |-> tracks, scene_context |-> scene_context,
                   optical_flow |-> optical_flow,
                   frames |-> e3_call.frames + 1]
    /\ last_op' = "process"
    /\ UNCHANGED <<detVars, vetoVars, trackVars, memVars, ttcVars, assoc, tom, scored>>

-----------------------------------------------------------------------------
(* webapp Pipeline *)

\* the predictions the pipeline holds for a frame: one per track of the
\* frame, track 1 at the minimum TTC and the others at the maximum
PipelinePredictions(f) ==
    [k \in DOMAIN f.risk_scores |->
        [track_id |-> k,
         ttc |-> IF k = 1 THEN f.ttc.min ELSE f.ttc.max,
         risk_score |-> f.risk_scores[k]]]

\* Pipeline._run_safety(predictions): the dict returned
Pipeline_run_safety(predictions) ==
    IF predictions = <<>>
    THEN [action |-> "CLEAR", ttc_min |-> INF, risk_scores |-> <<>>]
    ELSE
    LET ttc_min == SetMin({predictions[i].ttc : i \in DOMAIN predictions})
        risk_scores ==
            [id \in {predictions[i].track_id : i \in DOMAIN predictions} |->
                predictions[CHOOSE i \in DOMAIN predictions :
                               /\ predictions[i].track_id = id
                               /\ \A j \in DOMAIN predictions :
                                     predictions[j].track_id = id => j <= i
                           ].risk_score]
        max_risk == MaxOf(Range(risk_scores))
    IN  [action |-> IF ttc_min < 10 \/ max_risk > 80 THEN "EMERGENCY"
                    ELSE IF ttc_min < 20 THEN "SERVICE"
                    ELSE IF ttc_min < 30 THEN "WARNING"
                    ELSE IF ttc_min < 50 THEN "CAUTION"
                    ELSE "CLEAR",
         ttc_min |-> ttc_min,
         risk_scores |-> risk_scores]

\* one call of Pipeline._run_safety on the predictions of the frame
_run_safety ==
    /\ last_op = "init"
    /\ result' = Pipeline_run_safety(PipelinePredictions(frame))
    /\ last_op' = "_run_safety"
    /\ UNCHANGED <<detVars, frame, current_mode, arg, locals, brake_fired, engineVars>>

-----------------------------------------------------------------------------
(* Specifications *)

\* a quiet frame: no collision predicted, no tracks
QuietFrame ==
    [ttc |-> [min |-> INF, mean |-> INF, max |-> INF, confidence |-> 100],
     risk_scores |-> <<>>, validation_status |-> "VALIDATED"]

\* the dict process returns for a frame without tracks, as the arguments of
\* SafetyVeto.evaluate: ttc_result (inf is a whole number of tenths),
\* risk_scores, validation_status
EmptyFrame ==
    LET out == Engine3Behavior_process(NewEngine3, <<>>, TrainAtOrigin,
                                       "OPEN_TRACK", None).out
    IN  [ttc |-> [min |-> out.ttc.min,
                  mean |-> out.ttc.mean.num \div out.ttc.mean.den,
                  max |-> out.ttc.max, confidence |-> out.ttc.confidence],
         risk_scores |-> out.risk_scores,
         validation_status |-> out.validation_status]

InitObjects ==
    /\ det = NewDetector
    /\ status = NoStatus
    /\ log = <<>>
    /\ current_mode = "NOMINAL"
    /\ locals = NoLocals
    /\ result = NoResult
    /\ brake_fired = FALSE
    /\ arg = <<>>
    /\ botsort = NewBotSORT
    /\ engine2 = NewEngine2Persistence
    /\ assignments = <<>>
    /\ issued = <<>>
    /\ streak = <<>>
    /\ memory = NewTrackMemory
    /\ mem_arg = <<>>
    /\ mem_fed = NothingFed
    /\ ttc_result = NoTTCResult
    /\ tom = NoInference
    /\ engine3 = NewEngine3
    /\ e3_call = NoCall
    /\ e3_out = NoOutput
    /\ last_op = "init"

Init ==
    InitObjects /\ frame \in Frames \cup {EmptyFrame} /\ tracker \in Trackers
      /\ ttc_in \in TTCInputs
      /\ assoc \in {NoRuns(a) : a \in AssociationArgs}
      /\ scored \in ScoredTracks

DetectorNext == (\E x \in UpdateSamples : update(x)) \/ reset

VetoNext ==
    \/ \E m \in SystemModes : set_system_mode(m)
    \/ \E ms \in ModeStatusArgs : evaluate(ms)

TrackerNext ==
    \/ \E n \in 0..MaxDetections :
       \E s1 \in Matchings(0..(n - 1), DOMAIN botsort.tracks) :
       \E s2 \in Matchings((0..(n - 1)) \ DOMAIN s1,
                            DOMAIN botsort.tracks \ Range(s1)) :
          /\ MayTrack(botsort.tracks, botsort.next_id, n, s2 @@ s1, MaxIds)
          /\ BotSORT_update(n, s1, s2)
    \/ \E n \in 0..MaxDetections :
       \E a \in Matchings(0..(n - 1), DOMAIN engine2.tracks) :
          /\ MayTrack(engine2.tracks, engine2.next_track_id, n, a,
                      MaxIds)
          /\ process(n, a)

\* BotSORT as shipped, where neither stage matches anything, fed batches
CapacityNext ==
    \E n \in BatchSizes :
        /\ MayTrack(botsort.tracks, botsort.next_id, n, <<>>, MaxBatchIds)
        /\ BotSORT_update(n, <<>>, <<>>)

MemoryNext ==
    \/ \E q \in Qualities :
          /\ MayPut(q)
          /\ put(MemTrack(mem_fed.puts, q))
          /\ mem_fed' = FedPut(q)
    \/ /\ MayTouch
       /\ \E id \in TouchIds, q \in Qualities : put(MemTrack(id, q))
       /\ mem_fed' = FedTouch
    \/ /\ MayTouch
       /\ \E id \in TouchIds : get(id)
       /\ mem_fed' = FedTouch
    \/ /\ MayTouch
       /\ \E id \in TouchIds : remove(id)
       /\ mem_fed' = FedTouch
    \/ /\ MayTouch
       /\ clear
       /\ mem_fed' = FedTouch

TTCNext == _compute_ttc

AssociationNext == associate

QualityNext == score_track

IntentNext ==
    \E v \in Velocities, sp \in SmplParams, c \in SceneContexts :
        _infer_intent(v, sp, c)

\* the tracks of a frame; the crowded frame is the first frame of an engine
FrameTracks ==
    TrackLists \cup (IF e3_call.frames = 0 THEN {CrowdedFrame} ELSE {})

BehaviorNext ==
    \E tracks \in FrameTracks, scene_context \in FrameContexts,
       optical_flow \in OpticalFlows :
        call_process(tracks, scene_context, optical_flow)

PipelineNext == _run_safety

Next ==
    \/ DetectorNext \/ VetoNext \/ TrackerNext \/ CapacityNext
    \/ MemoryNext \/ TTCNext \/ AssociationNext
    \/ IntentNext \/ QualityNext \/ BehaviorNext \/ PipelineNext

Spec == Init /\ [][Next]_vars

\* the detector alone, fed by the environment
\* everything but the object under study at rest
InitQuiet ==
    InitObjects /\ ttc_in = NoTTCInput /\ assoc = NoAssociation
      /\ scored = UnscoredTrack

InitDetector == InitQuiet /\ frame = QuietFrame /\ tracker = "BotSORT"
SpecDetector == InitDetector /\ [][DetectorNext]_vars

\* the veto alone, on every frame
InitVeto ==
    InitQuiet /\ frame \in Frames \cup {EmptyFrame} /\ tracker = "BotSORT"
SpecVeto == InitVeto /\ [][VetoNext]_vars

\* the detector and the veto frame by frame: each frame update is called
\* and evaluate is handed the ModeStatus it returned; the scene stays the
\* same, an obstacle 0.1 s or 1.0 s ahead with one track of risk 0.99
ImminentFrame ==
    [ttc |-> [min |-> 1, mean |-> 1, max |-> 1, confidence |-> 100],
     risk_scores |-> <<99>>, validation_status |-> "VALIDATED"]
ClosingFrame ==
    [ttc |-> [min |-> 10, mean |-> 10, max |-> 10, confidence |-> 100],
     risk_scores |-> <<99>>, validation_status |-> "VALIDATED"]
ThrottleNext ==
    \/ /\ last_op # "update"
       /\ \E x \in Samples : update(x)
    \/ /\ last_op = "update"
       /\ evaluate(<<status>>)
InitThrottle ==
    InitQuiet /\ frame \in {ImminentFrame, ClosingFrame}
      /\ tracker = "BotSORT"
SpecThrottle == InitThrottle /\ [][ThrottleNext]_vars

\* the webapp decision alone, on every frame
InitPipeline == InitQuiet /\ frame \in Frames /\ tracker = "BotSORT"
SpecPipeline == InitPipeline /\ [][PipelineNext]_vars

\* one tracker alone, fed frames of detections
InitTracker == InitQuiet /\ frame = QuietFrame /\ tracker \in Trackers
SpecTracker == InitTracker /\ [][TrackerNext]_vars

\* TrackMemory alone
InitMemory == InitQuiet /\ frame = QuietFrame /\ tracker = "BotSORT"
SpecMemory == InitMemory /\ [][MemoryNext]_vars

\* BotSORT alone, fed empty frames and batches
InitCapacity == InitQuiet /\ frame = QuietFrame /\ tracker = "BotSORT"
SpecCapacity == InitCapacity /\ [][CapacityNext]_vars

\* compute_ttc_v2 alone, on every input
InitTTC ==
    InitObjects /\ frame = QuietFrame /\ tracker = "BotSORT"
      /\ ttc_in \in TTCInputs /\ assoc = NoAssociation
      /\ scored = UnscoredTrack
SpecTTC == InitTTC /\ [][TTCNext]_vars

\* compute_ttc_v2 on the inputs that decide the early exit: predictions
\* without an intent whose optimistic and nominal scenarios hold one point
EarlyExitPredictions ==
    [trajectories :
        UNION {[S -> {<<p>> : p \in Points}] :
                  S \in SUBSET {"optimistic", "nominal"}},
     intent : {None}]
EarlyExitInputs ==
    [train_state : TrainStates,
     predictions : UNION {[1..n -> EarlyExitPredictions] : n \in 0..MaxPreds}]
      \cup {EmergencyThenEarlier}
InitEarlyExit ==
    InitObjects /\ frame = QuietFrame /\ tracker = "BotSORT"
      /\ ttc_in \in EarlyExitInputs /\ assoc = NoAssociation
      /\ scored = UnscoredTrack
SpecEarlyExit == InitEarlyExit /\ [][TTCNext]_vars

\* associate_detections alone, called again and again on every argument
InitAssociation ==
    InitObjects /\ frame = QuietFrame /\ tracker = "BotSORT"
      /\ ttc_in = NoTTCInput /\ assoc \in {NoRuns(a) : a \in AssociationArgs}
      /\ scored = UnscoredTrack
SpecAssociation == InitAssociation /\ [][AssociationNext]_vars

\* infer_intent_v2 alone, called frame after frame for one track
InitIntent == InitQuiet /\ frame = QuietFrame /\ tracker = "BotSORT"
SpecIntent == InitIntent /\ [][IntentNext]_vars

InitBehavior == InitQuiet /\ frame = QuietFrame /\ tracker = "BotSORT"
SpecBehavior == InitBehavior /\ [][BehaviorNext]_vars

\* compute_quality_score alone, on every track
InitQuality ==
    InitObjects /\ frame = QuietFrame /\ tracker = "BotSORT"
      /\ ttc_in = NoTTCInput /\ assoc = NoAssociation
      /\ scored \in ScoredTracks
SpecQuality == InitQuality /\ [][QualityNext]_vars

-----------------------------------------------------------------------------
(* Properties *)

Alerts == {"WARNING", "CAUTION", "CLEAR"}
Brakes == {"EMERGENCY_BRAKE", "SERVICE_BRAKE"}

Evaluated == last_op = "evaluate"
Updated   == last_op = "update"

\* the tracks of the frame whose risk exceeds 0.8
CriticalTracks == {t \in DOMAIN frame.risk_scores : frame.risk_scores[t] > 80}

\* C1: whenever the mode an evaluate call runs under is DEGRADED, the action
\* it returns is WARNING, CAUTION or CLEAR, never a brake, whatever the TTC,
\* the risks and the validation status; a TTC of 0.1 s with a risk of 0.99
\* gives WARNING; and _degraded_action itself never returns a brake.
C1_DegradedNeverBrakes ==
    /\ (Evaluated /\ result.system_mode = "DEGRADED") =>
          /\ result.action \in Alerts
          /\ (result.ttc_used = 1 /\ result.max_risk = 99) =>
                result.action = "WARNING"
    /\ \A t \in TTCValues, r \in RiskValues \cup {0} :
          _degraded_action(t, r) \in Alerts

C1_Witness ==
    /\ Evaluated
    /\ current_mode = "DEGRADED"
    /\ result.system_mode = "DEGRADED"
    /\ result.ttc_used = 1
    /\ result.max_risk = 99
    /\ Cardinality(CriticalTracks) >= 3
    /\ result.action = "WARNING"

\* C2: whenever the mode an evaluate call runs under is FAULT, it returns
\* CLEAR with braking_enabled false, whatever the TTC, risks and validation.
C2_FaultAlwaysClear ==
    (Evaluated /\ result.system_mode = "FAULT") =>
        /\ result.action = "CLEAR"
        /\ result.braking_enabled = FALSE

C2_Witness ==
    /\ Evaluated
    /\ current_mode = "FAULT"
    /\ result.ttc_used = 1
    /\ Cardinality(CriticalTracks) >= 3
    /\ result.action = "CLEAR"
    /\ ~result.braking_enabled

\* C3: execute_hardwire_brake runs during an evaluate call if and only if
\* the call ran under NOMINAL and returned EMERGENCY_BRAKE; it never runs
\* under DEGRADED or FAULT.
C3_HardwireBrakeIffNominalEmergency ==
    Evaluated =>
        /\ brake_fired <=> (result.system_mode = "NOMINAL"
                            /\ result.action = "EMERGENCY_BRAKE")
        /\ result.system_mode \in {"DEGRADED", "FAULT"} => ~brake_fired

C3_Witness ==
    /\ Evaluated
    /\ result.system_mode = "NOMINAL"
    /\ result.action = "EMERGENCY_BRAKE"
    /\ brake_fired

\* C4: under NOMINAL the action is the first match of: EMERGENCY_BRAKE if
\* effective_ttc < 1.0 or at least 3 tracks have risk > 0.8; SERVICE_BRAKE
\* if effective_ttc < 2.0 and max_risk > 0.8; WARNING if effective_ttc <
\* 3.0; CAUTION if effective_ttc < 5.0 or validation is UNCERTAIN; else
\* CLEAR.  max_risk is the largest risk score, 0 when there are none.
C4_NominalCascade ==
    (Evaluated /\ result.system_mode = "NOMINAL") =>
        LET t    == result.ttc_used
            rs   == frame.risk_scores
            maxr == result.max_risk
        IN  /\ IF DOMAIN rs = {} THEN maxr = 0
               ELSE /\ \E k \in DOMAIN rs : rs[k] = maxr
                    /\ \A k \in DOMAIN rs : rs[k] <= maxr
            /\ result.action =
                 CASE t < 10 \/ Cardinality(CriticalTracks) >= 3
                        -> "EMERGENCY_BRAKE"
                   [] ~(t < 10 \/ Cardinality(CriticalTracks) >= 3)
                      /\ t < 20 /\ maxr > 80
                        -> "SERVICE_BRAKE"
                   [] ~(t < 10 \/ Cardinality(CriticalTracks) >= 3)
                      /\ ~(t < 20 /\ maxr > 80) /\ t < 30
                        -> "WARNING"
                   [] ~(t < 10 \/ Cardinality(CriticalTracks) >= 3)
                      /\ ~(t < 20 /\ maxr > 80) /\ ~(t < 30)
                      /\ (t < 50 \/ frame.validation_status = "UNCERTAIN")
                        -> "CAUTION"
                   [] OTHER -> "CLEAR"

C4_Witness ==
    /\ Evaluated
    /\ result.system_mode = "NOMINAL"
    /\ result.ttc_used < 10
    /\ result.max_risk > 80
    /\ Cardinality(CriticalTracks) < 3
    /\ result.action = "EMERGENCY_BRAKE"

\* C5: the TTC used for the decision is ttc.mean, with the TTC's own
\* confidence, unless validation is UNCERTAIN or ttc.confidence < 0.7; then
\* it is ttc.min, with confidence 0.5.
C5_EffectiveTTC ==
    Evaluated =>
        IF frame.validation_status = "UNCERTAIN" \/ frame.ttc.confidence < 70
        THEN /\ result.ttc_used = frame.ttc.min
             /\ locals.effective_ttc = frame.ttc.min
             /\ locals.conf = 50
        ELSE /\ result.ttc_used = frame.ttc.mean
             /\ locals.effective_ttc = frame.ttc.mean
             /\ locals.conf = frame.ttc.confidence

C5_Witness ==
    /\ Evaluated
    /\ frame.validation_status = "VALIDATED"
    /\ frame.ttc.confidence = 69
    /\ frame.ttc.min < frame.ttc.mean
    /\ result.ttc_used = frame.ttc.min
    /\ locals.conf = 50

\* the weighted blend of one input, in 1/10000
WeightedBlend(x) == 30 * x[1] + 30 * x[2] + 20 * x[3] + 20 * x[4]

RECURSIVE BlendTotal(_)
BlendTotal(s) ==
    IF s = <<>> THEN 0 ELSE WeightedBlend(s[1]) + BlendTotal(Tail(s))

\* the n most recent entries of s
Recent(s, n) == SubSeq(s, Len(s) - n + 1, Len(s))

\* the reported confidence_score is at least thr (the score is the float
\* quotient: the exact mean and the side its rounding fell on)
ReportedAtLeast(st, thr) ==
    \/ RatLT(thr, st.confidence_score)
    \/ RatEq(st.confidence_score, thr) /\ st.rounding >= 0

\* C6: after each update, confidence_score is the mean of the weighted
\* blends of the most recent min(n, 30) updates since construction or the
\* last reset, and the mode is NOMINAL iff that score >= 0.80, DEGRADED iff
\* 0.40 <= score < 0.80, FAULT iff score < 0.40.
C6_RollingMeanAndMode ==
    Updated =>
        LET n == Len(log)
            k == IF n < 30 THEN n ELSE 30
        IN  /\ Len(det.confidence_history) = k
            /\ RatEq(status.confidence_score,
                     Rat(BlendTotal(Recent(log, k)), k * 10000))
            /\ status.mode = "NOMINAL" <=>
                  ReportedAtLeast(status, Rat(80, 100))
            /\ status.mode = "DEGRADED" <=>
                  /\ ReportedAtLeast(status, Rat(40, 100))
                  /\ ~ReportedAtLeast(status, Rat(80, 100))
            /\ status.mode = "FAULT" <=>
                  ~ReportedAtLeast(status, Rat(40, 100))

C6_Witness ==
    /\ Updated
    /\ Len(log) > 30
    /\ log[1] = HighSample
    /\ log[Len(log)] = HalfSample
    /\ status.mode = "DEGRADED"
    /\ RatLT(status.confidence_score, Rat(51, 100))

\* the number of equal inputs at the end of s
RECURSIVE TrailingRun(_)
TrailingRun(s) ==
    IF s = <<>> THEN 0
    ELSE IF Len(s) = 1 THEN 1
    ELSE IF s[Len(s) - 1] # s[Len(s)] THEN 1
    ELSE 1 + TrailingRun(SubSeq(s, 1, Len(s) - 1))

\* C7: after at least 30 consecutive updates with the same four inputs the
\* status depends on those inputs only, whatever was fed before: the score
\* is their blend; (0.95, 0.90, 0.88, 0.92) gives NOMINAL with p_miss <
\* 0.01 and (0.10, 0.15, 0.20, 0.25) gives FAULT with recommendation
\* MANUAL_CONTROL_REQUIRED.
C7_SteadyInputDecides ==
    (Updated /\ TrailingRun(log) >= 30) =>
        LET x == log[Len(log)]
        IN  /\ RatEq(status.confidence_score, Rat(WeightedBlend(x), 10000))
            /\ x = HighSample =>
                  /\ status.mode = "NOMINAL"
                  /\ RatLT(status.p_miss, Rat(1, 100))
            /\ x = FailureSample =>
                  /\ status.mode = "FAULT"
                  /\ status.recommendation = "MANUAL_CONTROL_REQUIRED"

C7_Witness ==
    /\ Updated
    /\ Len(log) > 30
    /\ log[1] = HighSample
    /\ log[Len(log)] = FailureSample
    /\ TrailingRun(log) >= 30
    /\ status.mode = "FAULT"
    /\ status.recommendation = "MANUAL_CONTROL_REQUIRED"

\* C8: p_miss worsens strictly with the mode.  Every NOMINAL status reports
\* 0.001 and every FAULT status 0.40, and every DEGRADED status reports a
\* value strictly between the two, so of any two statuses returned by
\* update the one of the better mode has the smaller p_miss.
C8_MissWorsensWithMode ==
    Updated =>
        /\ status.mode = "NOMINAL" => RatEq(status.p_miss, Rat(1, 1000))
        /\ status.mode = "DEGRADED" =>
              /\ RatLT(Rat(1, 1000), status.p_miss)
              /\ RatLT(status.p_miss, Rat(40, 100))
        /\ status.mode = "FAULT" => RatEq(status.p_miss, Rat(40, 100))

C8_Witness ==
    /\ Updated
    /\ status.mode = "DEGRADED"
    /\ log[1] = FailureSample
    /\ RatLT(Rat(16, 100), status.p_miss)

\* s repeated n times
RECURSIVE Repeat(_, _)
Repeat(x, n) == IF n = 0 THEN <<>> ELSE <<x>> \o Repeat(x, n - 1)

\* C9: a fresh detector fed 10 updates with all four inputs 0.50 and then
\* 15 updates with all four inputs 0.90 reports NOMINAL on the last update.
C9_RecoveryToNominal ==
    (Updated /\ log = Repeat(HalfSample, 10) \o Repeat(RecoverySample, 15)) =>
        status.mode = "NOMINAL"

\* C10: reset empties the confidence history and leaves the thresholds,
\* the window size and the SafetyVeto alone; the first update after a reset
\* reports the blend of that one sample.
C10_ResetFrame ==
    [][ /\ last_op' = "reset" =>
            /\ det'.confidence_history = <<>>
            /\ det'.max_history = det.max_history
            /\ det'.nominal_threshold = det.nominal_threshold
            /\ det'.degraded_threshold = det.degraded_threshold
            /\ current_mode' = current_mode
        /\ (last_op = "reset" /\ last_op' = "update") =>
            /\ Len(det'.confidence_history) = 1
            /\ RatEq(status'.confidence_score,
                     Rat(WeightedBlend(log'[1]), 10000))
            /\ status'.mode =
                 IF WeightedBlend(log'[1]) >= 8000 THEN "NOMINAL"
                 ELSE IF WeightedBlend(log'[1]) >= 4000 THEN "DEGRADED"
                 ELSE "FAULT"
      ]_vars

C10_Witness ==
    /\ last_op = "reset"
    /\ status.mode = "FAULT"
    /\ det.confidence_history = <<>>

\* C11: a SafetyVeto starts in NOMINAL; set_system_mode(m) makes m the
\* current mode; evaluate given a mode_status S makes S.mode the current
\* mode and decides that very call under S.mode; evaluate given no
\* mode_status keeps the current mode and decides under it.
C11_ModeFollowsCalls ==
    /\ current_mode = "NOMINAL"
    /\ [][ /\ last_op' = "set_system_mode" => current_mode' = arg'
           /\ last_op' = "evaluate" =>
                LET m == IF arg' # <<>> THEN arg'[1].mode ELSE current_mode
                IN  /\ current_mode' = m
                    /\ result'.system_mode = m
                    /\ result'.braking_enabled = (m = "NOMINAL")
                    /\ result'.action =
                         ActionForMode(m, locals'.effective_ttc,
                                       locals'.max_risk, locals'.critical,
                                       frame.validation_status)
         ]_vars

C11_Witness ==
    /\ Evaluated
    /\ arg = <<>>
    /\ current_mode = "FAULT"
    /\ result.system_mode = "FAULT"
    /\ result.ttc_used = 1
    /\ result.action = "CLEAR"

\* C12: under DEGRADED the action is WARNING when effective_ttc < 2.0,
\* CAUTION when 2.0 <= effective_ttc < 3.0 and CLEAR when effective_ttc >=
\* 3.0, whatever the risk.
C12_DegradedTable ==
    /\ (Evaluated /\ result.system_mode = "DEGRADED") =>
          result.action =
             IF result.ttc_used < 20 THEN "WARNING"
             ELSE IF result.ttc_used < 30 THEN "CAUTION"
             ELSE "CLEAR"
    /\ \A t \in TTCValues, r \in RiskValues \cup {0} :
          _degraded_action(t, r) =
             IF t < 20 THEN "WARNING"
             ELSE IF t < 30 THEN "CAUTION"
             ELSE "CLEAR"

C12_Witness ==
    /\ Evaluated
    /\ result.system_mode = "DEGRADED"
    /\ result.ttc_used = 20
    /\ result.max_risk = 99
    /\ result.action = "CAUTION"

Tracked == last_op \in {"BotSORT_update", "process"}

C15_DeletedNeverRevived ==
    [][ Tracked' =>
          /\ \A id \in DOMAIN Held' : Held'[id].state # "DELETED"
          /\ \A id \in Range(issued) \ DOMAIN Held :
                /\ id \notin DOMAIN Held'
                /\ id \notin Range(assignments')
      ]_vars

C15_Witness ==
    /\ last_op = "BotSORT_update"
    /\ Len(issued) = 2
    /\ issued[1] \notin DOMAIN botsort.tracks
    /\ issued[2] \in DOMAIN botsort.tracks
    /\ botsort.tracks[issued[2]].state = "GHOST"

\* C16: track ids are monotonic and never reused: every id handed out is
\* greater than every id handed out before it, deleted tracks included, and
\* every held track is filed under the id it was given.
C16_IdsMonotonic ==
    /\ \A i, j \in DOMAIN issued : i < j => issued[i] < issued[j]
    /\ \A id \in DOMAIN Held : id \in Range(issued) /\ Held[id].track_id = id

C16_Witness ==
    /\ last_op = "BotSORT_update"
    /\ Len(issued) = 2
    /\ issued[1] \notin DOMAIN botsort.tracks
    /\ issued[2] \in DOMAIN botsort.tracks
    /\ botsort.tracks[issued[2]].time_since_update = 0

C18_RegistryCapacity ==
    /\ Cardinality(DOMAIN botsort.tracks) <= max_tracks
    /\ Cardinality(DOMAIN engine2.tracks) <= max_tracks

\* C19: when TrackMemory holds max_size = 50 tracks and put is given a
\* track of a new id, exactly one held track is evicted and the new one is
\* appended; the evicted track is one of the 26 oldest entries in cache
\* order and no other of those 26 has a lower quality_score.
C19_EvictsLowestOfOldest ==
    [][ (last_op' = "put" /\ Len(memory) = max_size
           /\ mem_arg'.track_id \notin Range(Keys(memory))) =>
          \E k \in 1..(max_size \div 2 + 1) :
             /\ memory' = Append(RemoveAt(memory, k), mem_arg')
             /\ \A j \in 1..(max_size \div 2 + 1) :
                   memory[k].quality_score <= memory[j].quality_score
      ]_vars

\* an eviction that passed over a track of lower quality_score in the newer
\* half
C19_Witness ==
    /\ last_op = "put"
    /\ mem_fed.puts = max_size + 1
    /\ Len(memory) = max_size
    /\ memory[1].track_id = 1
    /\ memory[1].quality_score = 80
    /\ \E i \in DOMAIN memory : memory[i].quality_score = 20 /\ i < max_size

Computed == last_op = "_compute_ttc"

\* min <= mean, on the rounded quotient
MeanGE(r, v) ==
    RatLT(Rat(v, 1), r.mean) \/ (RatEq(r.mean, Rat(v, 1)) /\ r.rounding >= 0)
\* mean <= max, on the rounded quotient
MeanLE(r, v) ==
    RatLT(r.mean, Rat(v, 1)) \/ (RatEq(r.mean, Rat(v, 1)) /\ r.rounding <= 0)

\* C20: every TTCResult returned by compute_ttc_v2 is well formed:
\* min <= mean <= max, all three infinite when no collision is predicted,
\* and confidence in [0.3, 1.0].
C20_WellFormed ==
    Computed =>
       /\ ttc_result.min <= ttc_result.max
       /\ MeanGE(ttc_result, ttc_result.min)
       /\ MeanLE(ttc_result, ttc_result.max)
       /\ (ttc_result.min = INF \/ ttc_result.max = INF
             \/ RatEq(ttc_result.mean, Rat(INF, 1)))
            => /\ ttc_result.min = INF
               /\ ttc_result.max = INF
               /\ RatEq(ttc_result.mean, Rat(INF, 1))
       /\ ttc_result.confidence \in 30..100

\* C21: with the vehicle at (0,0,0) moving (0,0,10) m/s and a STATIC track
\* predicted at (0,0,5) at t = 1.0 s (margin 5 m), compute_ttc_v2 reports
\* TTC.min of about 0.5 s with confidence 0.99, through the early exit.
C21_StaticTrackEarlyExit ==
    (Computed /\ ttc_in = StaticTrackAhead) =>
        /\ ttc_result.min \in 4..6
        /\ ttc_result.confidence = 99

\* C22: association is deterministic: running associate_detections twice on
\* identical detections, tracks and embeddings returns identical matched
\* pairs, unmatched detections and unmatched tracks.
C22_AssociationDeterministic ==
    [][ (last_op' = "associate_detections" /\ assoc.runs > 0)
           => assoc'.out = assoc.out ]_vars

\* a second call on two detections and a track that drew another IoU
\* matrix, with a first pair above the IoU threshold
C22_Witness ==
    /\ assoc.runs = 2
    /\ assoc.redrawn
    /\ assoc.args.detections = 2 /\ assoc.args.tracks = 1
    /\ assoc.iou.at[<<0, 0>>] = 90
    /\ assoc.out = Matching(<<>>, <<0, 1>>, <<0>>)

\* C25: every Intent returned by infer_intent_v2 carries a posterior over
\* {STATIC, LEAVING, APPROACHING, CROSSING} that sums to 1, on the first
\* frame of a track and after smoothing against the intents returned by
\* earlier calls.
C25_PosteriorSumsToOne ==
    \A i \in DOMAIN tom.history :
        /\ DOMAIN tom.history[i].probs = Range(INTENT_STATES)
        /\ RatEq(Total(tom.history[i].probs), Rat(1, 1))

\* a smoothed intent whose state differs from the one before it
C25_Witness ==
    /\ Len(tom.history) = 2
    /\ tom.history[1].state # tom.history[2].state
    /\ tom.history[2].probs # tom.history[1].probs

Scored == last_op = "compute_quality_score"

\* C24: compute_quality_score returns a value in [0, 1] for every track
\* with age >= 0, time_since_update >= 0 and match_frequency and confidence
\* in [0, 1], and the value is 0.3 min(age/30, 1) + 0.3 match_frequency
\* + 0.2 confidence + 0.2 max(1 - time_since_update/30, 0) (here times 3000).
C24_QualityScore ==
    Scored =>
        LET q     == scored.quality_score
            age30 == IF scored.age < 30 THEN scored.age ELSE 30
            left  == IF scored.time_since_update < 30
                     THEN 30 - scored.time_since_update ELSE 0
        IN  /\ 0 <= q.num /\ q.num <= q.den
            /\ q.num * (3000 \div q.den) =
                   30 * age30
                     + 9 * (scored.match_frequency.num
                              * (100 \div scored.match_frequency.den))
                     + 6 * (scored.confidence.num
                              * (100 \div scored.confidence.den))
                     + 20 * left
            /\ 3000 % q.den = 0

\* a track older than 30 frames and unseen for more than 30 scored
C24_Witness ==
    /\ Scored
    /\ scored.age > 30 /\ scored.time_since_update > 30
    /\ scored.match_frequency = Rat(35, 100)
    /\ scored.quality_score = Rat(405, 1000)

Processed == last_op = "process"

InUnitInterval(r) == ~RatLess(r, Rat(0, 1)) /\ ~RatLess(Rat(1, 1), r)

\* C23: every risk score the risk scorer produces and process stores, in
\* the dict it returns, on the predictions and in prev_risks, lies in
\* [0, 1], over any sequence of frames.
C23_RiskInUnitInterval ==
    /\ \A k \in DOMAIN e3_out.risk_scores :
           InUnitInterval(e3_out.risk_scores[k])
    /\ \A i \in DOMAIN e3_out.predictions :
           InUnitInterval(e3_out.predictions[i].risk_score)
    /\ \A k \in DOMAIN engine3.prev_risks :
           InUnitInterval(engine3.prev_risks[k])

\* a second frame in which the score of a track with a previous risk is
\* held at 1 by the clip
C23_Witness ==
    /\ Processed /\ e3_call.frames = 2
    /\ \E k \in DOMAIN e3_out.risk_scores :
           /\ e3_out.risk_scores[k] = Rat(1, 1)
           /\ RatLess(Rat(1, 1),
                  compute_risk_score_v2_unclipped(
                      e3_call.tracks[1],
                      e3_out.predictions[
                          CHOOSE i \in DOMAIN e3_out.predictions :
                              e3_out.predictions[i].track_id = k].intent,
                      e3_out.ttc, Rat(1, 1)))

\* C27: the risk score process stores for a track id is the risk scorer's
\* value for that same track (its category and quality_score), that
\* track's intent, the frame's TTC result and that track's previous risk.
C27_RiskOfSameTrack ==
    [][Processed' =>
          \A i \in DOMAIN e3_call'.tracks :
              e3_out'.risk_scores[e3_call'.tracks[i].track_id] =
                  compute_risk_score_v2(
                      e3_call'.tracks[i], e3_out'.predictions[i].intent,
                      e3_out'.ttc,
                      DictGet(engine3.prev_risks,
                              e3_call'.tracks[i].track_id, None))]_vars

\* C28: the validation status process reports is UNCERTAIN only when
\* optical flow was supplied and the kinematic and flow-derived velocities
\* of some track diverge by more than 1.5 m/s.
C28_UncertainOnlyOnDivergence ==
    (Processed /\ e3_out.validation_status = "UNCERTAIN") =>
        /\ ~IsNone(e3_call.optical_flow)
        /\ \E i \in DOMAIN e3_call.tracks :
               cross_validate_trajectory(e3_out.predictions[i].trajectories,
                                         e3_call.optical_flow,
                                         e3_call.tracks[i]) = "UNCERTAIN"

\* C29: with the configured horizons, every finite TTCResult process
\* returns has min and max among the horizons (so min >= 1.0 s), and the
\* early-exit result of confidence 0.99 is never returned.
C29_TTCOnHorizons ==
    Processed =>
        /\ e3_out.ttc.confidence # 99
        /\ e3_out.ttc.min # INF =>
               /\ e3_out.ttc.min \in Range(horizons)
               /\ e3_out.ttc.max \in Range(horizons)
               /\ e3_out.ttc.min >= EMERGENCY_THRESHOLD

\* a frame whose nearest track is within its margin at the first horizon
\* and whose farthest at the last
C29_Witness ==
    /\ Processed
    /\ e3_out.ttc.min = 10 /\ e3_out.ttc.max = 50
    /\ e3_out.ttc.confidence = 60

\* C26: a frame with no tracks yields TTC (inf, inf, inf, 1.0) and empty
\* risk scores, whose maximum is 0 with no critical track, and evaluate
\* on that output in NOMINAL mode returns CLEAR with ttc_used = inf.
C26_EmptyFrameIsClear ==
    (last_op = "evaluate" /\ frame = EmptyFrame) =>
        /\ frame.ttc = [min |-> INF, mean |-> INF, max |-> INF,
                        confidence |-> 100]
        /\ frame.risk_scores = <<>>
        /\ locals.max_risk = 0 /\ locals.critical = 0
        /\ result.system_mode = "NOMINAL" =>
               result.action = "CLEAR" /\ result.ttc_used = INF

\* evaluate has run in NOMINAL mode on the output of a frame without tracks
C26_Witness ==
    /\ last_op = "evaluate" /\ frame = EmptyFrame
    /\ result.system_mode = "NOMINAL" /\ result.action = "CLEAR"
    /\ ~brake_fired

\* C30: for every effective TTC, risk scores and validation status for
\* which the NOMINAL policy returns EMERGENCY_BRAKE or SERVICE_BRAKE, the
\* DEGRADED policy returns WARNING.
C30_DegradedWarnsWhereNominalBrakes ==
    (/\ last_op = "evaluate" /\ result.system_mode = "DEGRADED"
     /\ decide_action(locals.effective_ttc, locals.max_risk, locals.critical,
                      frame.validation_status)
          \in {"EMERGENCY_BRAKE", "SERVICE_BRAKE"})
        => result.action = "WARNING"

\* C31: Engine3Behavior keeps smoothing state only for live tracks: every
\* intent history holds at most 5 intents, and after a process call
\* prev_intents and prev_risks hold no entry for a track that was not
\* passed to it.
C31_SmoothingStateOnlyForLiveTracks ==
    Processed =>
        LET live == {e3_call.tracks[i].track_id : i \in DOMAIN e3_call.tracks}
        IN  /\ \A k \in DOMAIN engine3.prev_intents :
                   Len(engine3.prev_intents[k]) <= 5
            /\ DOMAIN engine3.prev_intents \subseteq live
            /\ DOMAIN engine3.prev_risks \subseteq live

\* C32: a track enters GHOST exactly when it is ACTIVE and goes unmatched
\* in a frame: a held track that was not GHOST is GHOST after the frame if
\* and only if it was ACTIVE and the frame did not match it, and a track
\* created in the frame is not GHOST.
C32_GhostIffActiveUnmatched ==
    [][ Tracked' =>
          /\ \A id \in DOMAIN Held \cap DOMAIN Held' :
                Held[id].state # "GHOST" =>
                    (Held'[id].state = "GHOST"
                       <=> (Held[id].state = "ACTIVE"
                              /\ id \notin Range(assignments')))
          /\ \A id \in DOMAIN Held' \ DOMAIN Held :
                Held'[id].state # "GHOST"
      ]_vars

\* the predictions compute_ttc_v2 evaluates, in the order it evaluates them
EvaluatedPredictions ==
    LET train_pos    == IF IsNone(ttc_in.train_state) THEN <<0, 0, 0>>
                        ELSE ttc_in.train_state.position
        sorted_preds == sorted(ttc_in.predictions, train_pos)
    IN  SubSeq(sorted_preds, 1, Min2(Len(sorted_preds), max_tracks_ttc))

\* the timestamps below 1.0 s at which a point of an evaluated prediction
\* lies within its margin, in the order of evaluation
EmergencySamples ==
    LET train_pos == IF IsNone(ttc_in.train_state) THEN <<0, 0, 0>>
                     ELSE ttc_in.train_state.position
        train_vel == IF IsNone(ttc_in.train_state) THEN <<0, 0, 10>>
                     ELSE ttc_in.train_state.velocity
        Emergency(t) == t < EMERGENCY_THRESHOLD
    IN  SelectSeq(AllCandidates(EvaluatedPredictions, train_pos, train_vel), Emergency)

\* C33: whenever a point of an evaluated track lies within its safety margin
\* at a timestamp below 1.0 s, compute_ttc_v2 returns min = mean = max = the
\* first such timestamp in evaluation order, with confidence 0.99, whatever
\* the remaining points and tracks are.
C33_EmergencyEarlyExit ==
    (Computed /\ EmergencySamples # <<>>) =>
        /\ ttc_result.min = EmergencySamples[1]
        /\ ttc_result.max = EmergencySamples[1]
        /\ RatEq(ttc_result.mean, Rat(EmergencySamples[1], 1))
        /\ ttc_result.rounding = 0
        /\ ttc_result.min < EMERGENCY_THRESHOLD
        /\ ttc_result.confidence = 99

\* the first emergency sample is returned although a later point and a later
\* track hold earlier ones
C33_Witness ==
    /\ Computed
    /\ Len(EmergencySamples) = 3
    /\ EmergencySamples[1] = 8
    /\ EmergencySamples[3] = 3
    /\ ttc_result.min = 8
    /\ ttc_result.confidence = 99

\* the distance, squared, of a track from the vehicle now
CurrentDistance(track) ==
    IF HasBBox(track)
    THEN Norm2(<<track.bbox_3d.x, track.bbox_3d.y, track.bbox_3d.z>>,
               TrainAtOrigin.position)
    ELSE Norm2(<<0, 0, 100>>, TrainAtOrigin.position)

\* the tracks of the frame that are nearer to the vehicle now than track is
Nearer(track) ==
    {i \in DOMAIN e3_call.tracks :
        CurrentDistance(e3_call.tracks[i]) < CurrentDistance(track)}

\* the predictions of the frame that compute_ttc_v2 evaluated and found
\* within their margin at some point
Contributing ==
    LET sorted_preds == sorted(e3_out.predictions, TrainAtOrigin.position)
        evaluated == SubSeq(sorted_preds, 1,
                            Min2(Len(sorted_preds), max_tracks_ttc))
    IN  {evaluated[i].track_id : i \in
            {j \in DOMAIN evaluated :
                Candidates(evaluated[j], TrainAtOrigin.position,
                           TrainAtOrigin.velocity) # <<>>}}

\* C34: compute_ttc_v2 evaluates the 30 tracks whose current distance to the
\* vehicle is smallest: a track contributes collision-time candidates only
\* if no more than 29 other tracks are nearer to the vehicle now.
C34_NearestThirtyEvaluated ==
    Processed =>
        \A i \in DOMAIN e3_call.tracks :
            e3_call.tracks[i].track_id \in Contributing
                => Cardinality(Nearer(e3_call.tracks[i])) <= max_tracks_ttc - 1

\* the input factor a degraded_reason names
FactorNamed(reason, x) ==
    IF reason = "RAIL_OCCLUSION" THEN x[1]
    ELSE IF reason = "CALIBRATION_DRIFT" THEN x[2]
    ELSE IF reason = "LOW_CONTRAST" THEN x[3]
    ELSE IF reason = "TUNNEL_DARK" THEN Min2(x[1], x[3])
    ELSE 101

\* C35: whenever update returns mode DEGRADED, degraded_reason names the
\* lowest of the four input factors of that update (rail visibility,
\* calibration confidence, depth confidence, detection confidence).
C35_ReasonNamesLowestFactor ==
    (Updated /\ status.mode = "DEGRADED") =>
        \A i \in 1..4 :
            FactorNamed(status.degraded_reason, log[Len(log)])
                <= log[Len(log)][i]

\* C40: update never reports TUNNEL_DARK, RAIL_SWITCH, CURVE_SHARP or
\* WEATHER_SEVERE: the reason is NONE exactly when the mode is NOMINAL,
\* CALIBRATION_DRIFT in FAULT, and one of RAIL_OCCLUSION, CALIBRATION_DRIFT
\* and LOW_CONTRAST in DEGRADED.
C40_ReasonsReported ==
    Updated =>
        /\ status.degraded_reason \notin
              {"TUNNEL_DARK", "RAIL_SWITCH", "CURVE_SHARP", "WEATHER_SEVERE"}
        /\ status.degraded_reason = "NONE" <=> status.mode = "NOMINAL"
        /\ status.mode = "FAULT" => status.degraded_reason = "CALIBRATION_DRIFT"
        /\ status.mode = "DEGRADED" =>
              status.degraded_reason \in
                  {"RAIL_OCCLUSION", "CALIBRATION_DRIFT", "LOW_CONTRAST"}

\* a DEGRADED update whose lowest factor is the depth confidence, which is
\* also the tunnel factor min(rail_visibility, depth_confidence)
C40_Witness ==
    /\ Updated
    /\ status.mode = "DEGRADED"
    /\ log[Len(log)] = HighSample
    /\ status.degraded_reason = "LOW_CONTRAST"

\* C36: after any put, get, remove or clear count() is at most max_size; a
\* put of an id already held replaces the record and makes it the newest
\* entry, and every other entry stays, in order; a get of a held id makes
\* it the newest entry and changes nothing else; the track just put is held.
C36_CacheOperations ==
    [][ /\ count(memory') <= max_size
        /\ (last_op' = "put" /\ mem_arg'.track_id \in Range(Keys(memory))) =>
              memory' = Append(RemoveAt(memory,
                                        Position(memory, mem_arg'.track_id)),
                               mem_arg')
        /\ (last_op' = "get" /\ mem_arg' \in Range(Keys(memory))) =>
              memory' = Append(RemoveAt(memory, Position(memory, mem_arg')),
                               memory[Position(memory, mem_arg')])
        /\ last_op' = "put" => mem_arg' \in Range(memory')
      ]_vars

\* the oldest track put again in a full cache: it is the newest entry and
\* the cache is still full
C36_Witness ==
    /\ last_op = "put"
    /\ mem_fed.touches = 1
    /\ count(memory) = max_size
    /\ memory[max_size] = mem_arg
    /\ mem_arg.track_id = 0
    /\ memory[1].track_id = 1

\* the mean of the blended confidence of the last max_history inputs fed
WindowMean ==
    LET n      == Min2(Len(log), max_history)
        window == SubSeq(log, Len(log) - n + 1, Len(log))
    IN  Rat(SumSeq([i \in 1..n |-> overall_confidence(window[i])]),
            n * BlendScale)

\* C37: when every evaluate is given the ModeStatus update returned for the
\* frame, EMERGENCY_BRAKE or SERVICE_BRAKE is returned, and the hardwired
\* brake fired, only on frames where the mean of the last 30 (or fewer)
\* blended confidence samples is at least 0.80.
C37_BrakesOnlyWhenConfident ==
    (Evaluated /\ arg = <<status>>
       /\ (result.action \in {"EMERGENCY_BRAKE", "SERVICE_BRAKE"}
             \/ brake_fired))
        => ~RatLT(WindowMean, nominal_threshold)

\* an emergency brake on frame 32: the first ten frames were fed 0.50, and
\* the mean of the last 30 samples is back above 0.80 while the mean of all
\* 32 is not
C37_Witness ==
    /\ Evaluated
    /\ arg = <<status>>
    /\ result.action = "EMERGENCY_BRAKE"
    /\ brake_fired
    /\ Len(log) > max_history
    /\ log[1] = HalfSample
    /\ log[10] = HalfSample

\* EMERGENCY_BRAKE > SERVICE_BRAKE > WARNING > CAUTION > CLEAR
Severity(action) ==
    CASE action = "EMERGENCY_BRAKE" -> 4
      [] action = "SERVICE_BRAKE" -> 3
      [] action = "WARNING" -> 2
      [] action = "CAUTION" -> 1
      [] action = "CLEAR" -> 0

\* the NOMINAL action for the TTCResult and the risks of the frame, were the
\* frame validated and the TTC confidence c
ActionWhenValidated(c) ==
    LET et == evaluate_ttc([frame.ttc EXCEPT !.confidence = c], "VALIDATED")
        ar == aggregate_risk(frame.risk_scores)
    IN  decide_action(et[1], ar[1], ar[2], "VALIDATED")

\* C38: in NOMINAL mode uncertainty never relaxes the decision: for a
\* TTCResult with min <= mean, the action returned when validation is
\* UNCERTAIN or the TTC confidence is below 0.7 is at least as severe as the
\* action for the same TTC and risks when validated with confidence >= 0.7.
C38_UncertaintyNeverRelaxes ==
    (Evaluated /\ result.system_mode = "NOMINAL"
       /\ frame.ttc.min <= frame.ttc.mean
       /\ (frame.validation_status = "UNCERTAIN" \/ frame.ttc.confidence < 70))
        => \A c \in {c \in TTCConfidences : c >= 70} :
              Severity(result.action) >= Severity(ActionWhenValidated(c))

\* an UNCERTAIN frame whose TTC runs from 0.1 s to a mean of 5.0 s: the
\* emergency brake, where the validated frame is CLEAR
C38_Witness ==
    /\ Evaluated
    /\ result.system_mode = "NOMINAL"
    /\ frame.validation_status = "UNCERTAIN"
    /\ frame.ttc.min = 1
    /\ frame.ttc.mean = 50
    /\ frame.risk_scores = <<>>
    /\ result.action = "EMERGENCY_BRAKE"
    /\ ActionWhenValidated(100) = "CLEAR"

\* Action(value): the member of the Action enum with this value
ActionOfValue(value) ==
    IF value = "EMERGENCY" THEN "EMERGENCY_BRAKE"
    ELSE IF value = "SERVICE" THEN "SERVICE_BRAKE"
    ELSE value

\* C39: Pipeline._run_safety agrees with the NOMINAL policy of the Safety
\* Decision Engine: for the same minimum TTC and per-track risk scores it
\* returns the action decide_action returns, with critical count the number
\* of risks above 0.8 and validation not UNCERTAIN.
C39_PipelineAgreesWithEngine ==
    last_op = "_run_safety" =>
        ActionOfValue(result.action) =
            decide_action(result.ttc_min,
                          aggregate_risk(result.risk_scores)[1],
                          aggregate_risk(result.risk_scores)[2],
                          "VALIDATED")

====
